---------------------------- MODULE Spec2Model ----------------------------
(***************************************************************************)
(* Model of trestle.core.control_interface.ControlInterface: the header    *)
(* merge (merge_dicts_deep), parameter rendering (param_to_str), property  *)
(* get / replace / delete and the section search over a control's parts.   *)
(*                                                                         *)
(* Python objects that are mutated in place (dicts and lists) live in a    *)
(* heap and are referred to by address, so that `dest[key] = src[key]`     *)
(* shares the object as it does in Python.  Strings whose characters the   *)
(* code inspects are sequences of one-character strings.                   *)
(***************************************************************************)
EXTENDS Integers, Sequences, FiniteSets, TLC

VARIABLES
    heap,      \* merge: the Python heap, a sequence of dict / list objects
    dest,      \* merge: address of the dest mapping
    srcs,      \* merge: addresses of the source mappings
    heapPre,   \* merge: the heap as it was before the last call
    calls,     \* merge: the calls made so far, [src, ow] each
    param,     \* rendering: the Parameter
    pcall,     \* rendering: the arguments of the param_to_str call made
    presult,   \* rendering: what that call returned or raised
    props,     \* properties: the props of the node, None or a list
    propsPre,  \* properties: props before the last call
    plast,     \* properties: the last call, with what it returned
    parts,     \* sections: control.parts, a list of parts with their sub-parts
    scall,     \* sections: the arguments of the section call made
    sresult,   \* sections: what that call returned
    component, \* components: the component definition
    componentPre, \* components: the component before the last call
    newReq,    \* components: new_imp_req as the last call left it
    icall,     \* components: the last call, with new_imp_req as it was given
    docs,      \* resolution: the documents load(name) answers with
    chain,     \* resolution: the import chain, one frame per open profile
    outcome,   \* resolution: running, resolved with a catalog, or failed
    control,   \* parameters of a control: control.params, None or a list
    dcall,     \* parameters of a control: the get_control_param_dict call made
    param_dict, \* parameters of a control: the mapping that call returned
    work_sheet, \* spread sheet: the rows of the sheet, row 1 the headings
    col_name_to_number, \* spread sheet: the mapping _mapper builds
    xcall,     \* spread sheet: the last get(row, name), with its outcome
    class_list, \* reorder: the list of classes as the loop has it
    classesIn, \* reorder: the list as it was handed over
    loop,      \* reorder: where the loop stands, [pc, loop_num, did_swap]
    forward_refs \* reorder: the forward references returned

mergeVars == <<heap, dest, srcs, heapPre, calls>>
paramVars == <<param, pcall, presult>>
propVars == <<props, propsPre, plast>>
sectionVars == <<parts, scall, sresult>>
compVars == <<component, componentPre, newReq, icall>>
resVars == <<docs, chain, outcome>>
dictVars == <<control, dcall, param_dict>>
xlsxVars == <<work_sheet, col_name_to_number, xcall>>
orderVars == <<class_list, classesIn, loop, forward_refs>>

vars == <<mergeVars, paramVars, propVars, sectionVars, compVars, resVars,
          dictVars, xlsxVars, orderVars>>

(***************************************************************************)
(* Bounds                                                                  *)
(***************************************************************************)
MaxList == 2       \* longest list in a generated header
MaxCalls == 2      \* merge_dicts_deep calls in one behaviour
MaxVals == 2       \* most values of a parameter
MaxFmt == 3        \* longest params_format template
MaxProps == 2      \* most properties of a node
MaxParts == 3      \* most parts of a control, sub-parts counted

Scalars == {1, 2}  \* scalar header values

Range(s) == {s[i] : i \in DOMAIN s}

SeqsUpTo(S, n) == UNION {[1..m -> S] : m \in 0..n}

(***************************************************************************)
(* Strings are sequences of characters; an Optional[str] is None or a      *)
(* string.                                                                 *)
(***************************************************************************)
None == [isNone |-> TRUE, s |-> <<>>]
Str(s) == [isNone |-> FALSE, s |-> s]
Truthy(o) == ~o.isNone /\ o.s # <<>>          \* bool(o) of an Optional[str]

\* an Optional[List[...]]: None or a list
NoList == [isNone |-> TRUE, list |-> <<>>]
List(l) == [isNone |-> FALSE, list |-> l]

\* trestle.common.list_utils.as_list: the list, or [] for None
as_list(o) == IF o.isNone \/ o.list = <<>> THEN <<>> ELSE o.list

\* trestle.common.list_utils.none_if_empty: None for an empty list
none_if_empty(o) == IF o.isNone \/ o.list = <<>> THEN NoList ELSE o

\* str.lower(), on the letters the model uses
LowerChar(c) ==
    CASE c = "A" -> "a"
      [] c = "B" -> "b"
      [] c = "S" -> "s"
      [] c = "W" -> "w"
      [] OTHER -> c
Lower(s) == [i \in DOMAIN s |-> LowerChar(s[i])]

\* str.isspace(), on the characters the model uses
IsSpace(c) == c \in {" ", "\n", "\t"}

\* str.strip(): whitespace is dropped at both ends
RECURSIVE LStrip(_)
LStrip(s) == IF s # <<>> /\ IsSpace(s[1]) THEN LStrip(Tail(s)) ELSE s
RECURSIVE RStrip(_)
RStrip(s) == IF s # <<>> /\ IsSpace(s[Len(s)]) THEN RStrip(SubSeq(s, 1, Len(s) - 1)) ELSE s
Strip(s) == RStrip(LStrip(s))

\* sep.join(list)
RECURSIVE Join(_, _)
Join(sep, list) ==
    IF list = <<>> THEN <<>>
    ELSE IF Len(list) = 1 THEN list[1]
    ELSE list[1] \o sep \o Join(sep, Tail(list))

\* s.count(ch), ch one character
Count(s, ch) == Cardinality({i \in DOMAIN s : s[i] = ch})

\* s.replace(ch, by), ch one character
RECURSIVE Replace(_, _, _)
Replace(s, ch, by) ==
    IF s = <<>> THEN <<>>
    ELSE (IF s[1] = ch THEN by ELSE <<s[1]>>) \o Replace(Tail(s), ch, by)

(***************************************************************************)
(* Values.  A value held in a dict or a list is a scalar or a reference    *)
(* to a heap object; a tree is a value with the objects it reaches copied  *)
(* out of the heap (what Python's == compares).                            *)
(***************************************************************************)
IntVal(n) == [k |-> "int", n |-> n]
RefVal(a) == [k |-> "ref", n |-> a]

Entry(key, val) == [key |-> key, val |-> val]

IntTree(n) == [k |-> "int", n |-> n, items |-> <<>>]
ListTree(elems) == [k |-> "list", n |-> 0,
                    items |-> [i \in DOMAIN elems |-> Entry("", elems[i])]]
DictTree(entries) == [k |-> "dict", n |-> 0, items |-> entries]

\* dict(...) / list(...) construction: the objects of a tree are allocated
\* children first, the value that refers to the tree is returned with the heap
RECURSIVE Store(_, _)
RECURSIVE StoreItems(_, _, _, _)
StoreItems(h, items, i, done) ==
    IF i > Len(items) THEN [h |-> h, items |-> done]
    ELSE LET r == Store(h, items[i].val)
         IN  StoreItems(r.h, items, i + 1, Append(done, Entry(items[i].key, r.v)))

Store(h, t) ==
    IF t.k = "int" THEN [h |-> h, v |-> IntVal(t.n)]
    ELSE LET r == StoreItems(h, t.items, 1, <<>>)
         IN  [h |-> Append(r.h, [k |-> t.k, items |-> r.items]),
              v |-> RefVal(Len(r.h) + 1)]

\* the tree a value stands for in heap h
RECURSIVE Snapshot(_, _)
Snapshot(h, v) ==
    IF v.k = "int" THEN IntTree(v.n)
    ELSE [k |-> h[v.n].k, n |-> 0,
          items |-> [i \in DOMAIN h[v.n].items |->
                        Entry(h[v.n].items[i].key, Snapshot(h, h[v.n].items[i].val))]]

IsDict(h, v) == v.k = "ref" /\ h[v.n].k = "dict"     \* isinstance(v, dict)
IsList(h, v) == v.k = "ref" /\ h[v.n].k = "list"     \* isinstance(v, list)

KeysOf(obj) == {obj.items[i].key : i \in DOMAIN obj.items}
KeyIndex(obj, key) == CHOOSE i \in DOMAIN obj.items : obj.items[i].key = key
Lookup(obj, key) == obj.items[KeyIndex(obj, key)].val

\* Python ==, on trees: dicts compare as mappings, lists element by element
RECURSIVE PyEq(_, _)
PyEq(a, b) ==
    /\ a.k = b.k
    /\ CASE a.k = "int"  -> a.n = b.n
         [] a.k = "list" -> /\ Len(a.items) = Len(b.items)
                            /\ \A i \in DOMAIN a.items : PyEq(a.items[i].val, b.items[i].val)
         [] a.k = "dict" -> /\ KeysOf(a) = KeysOf(b)
                            /\ \A key \in KeysOf(a) : PyEq(Lookup(a, key), Lookup(b, key))

\* item in lst
PyIn(h, item, lst) ==
    \E i \in DOMAIN h[lst].items : PyEq(Snapshot(h, item), Snapshot(h, h[lst].items[i].val))

(***************************************************************************)
(* merge_dicts_deep                                                        *)
(***************************************************************************)
\* dest[key] = val for a key dest has: the entry keeps its place
SetKey(h, d, key, val) ==
    [h EXCEPT ![d].items[KeyIndex(h[d], key)].val = val]

\* dest[key] = val for a key dest lacks: the entry goes last
AddKey(h, d, key, val) ==
    [h EXCEPT ![d].items = Append(@, Entry(key, val))]

\* mutant: the membership test is dropped
AppendNovel_NoCheck(h, dl, item) ==
    [h EXCEPT ![dl].items = Append(@, Entry("", item))]

\* if item not in dest[key]: dest[key].append(item)
AppendNovel(h, dl, item) ==
    IF ~PyIn(h, item, dl)
    THEN [h EXCEPT ![dl].items = Append(@, Entry("", item))]
    ELSE h

\* mutant: dest[key].extend(src[key])
ExtendList_Extend(h, dl, sl, j) ==
    [h EXCEPT ![dl].items = @ \o h[sl].items]

\* for item in src[key]: ... ; the loop reads the list as it is at each step
RECURSIVE ExtendList(_, _, _, _)
ExtendList(h, dl, sl, j) ==
    IF j > Len(h[sl].items) THEN h
    ELSE ExtendList(AppendNovel(h, dl, h[sl].items[j].val), dl, sl, j + 1)

\* mutant: the flag is ignored and src always wins
OverrideDest_Always(h, d, key, sv, ow) == SetKey(h, d, key, sv)

\* elif overwrite_header_values: dest[key] = src[key]
OverrideDest(h, d, key, sv, ow) ==
    IF ow THEN SetKey(h, d, key, sv) ELSE h

\* mutant: a key dest lacks is not taken from src
AddFromSrc_Skip(h, d, key, sv) == h

\* else: dest[key] = src[key]
AddFromSrc(h, d, key, sv) == AddKey(h, d, key, sv)

\* the loop over src.keys(), from its i-th key on
RECURSIVE MergeFrom(_, _, _, _, _)
MergeFrom(h, d, s, ow, i) ==
    IF i > Len(h[s].items) THEN h
    ELSE LET key == h[s].items[i].key
             sv == h[s].items[i].val
             h1 == IF key \in KeysOf(h[d])
                   THEN LET dv == Lookup(h[d], key)
                        IN  IF IsDict(h, dv) /\ IsDict(h, sv)
                            THEN MergeFrom(h, dv.n, sv.n, ow, 1)
                            ELSE IF IsList(h, dv) /\ IsList(h, sv)
                            THEN ExtendList(h, dv.n, sv.n, 1)
                            ELSE OverrideDest(h, d, key, sv, ow)
                   ELSE AddFromSrc(h, d, key, sv)
         IN  MergeFrom(h1, d, s, ow, i + 1)

merge_dicts_deep(h, d, s, ow) == MergeFrom(h, d, s, ow, 1)

(***************************************************************************)
(* The parts of the state a specification does not use                     *)
(***************************************************************************)
NoCall == [made |-> FALSE]

NoMerge ==
    /\ heap = <<>> /\ dest = 0 /\ srcs = <<>> /\ heapPre = <<>> /\ calls = <<>>

NoParam ==
    /\ param = [id |-> <<>>] /\ pcall = NoCall /\ presult = [raised |-> FALSE]

NoProps ==
    /\ props = NoList /\ propsPre = NoList /\ plast = NoCall

NoSections ==
    /\ parts = <<>> /\ scall = NoCall /\ sresult = <<>>

NoComponent ==
    /\ component = <<>> /\ componentPre = <<>> /\ newReq = <<>> /\ icall = NoCall

NoResolution ==
    /\ docs = <<>> /\ chain = <<>> /\ outcome = [state |-> "idle"]

NoDict ==
    /\ control = NoList /\ dcall = NoCall /\ param_dict = <<>>

NoXlsx ==
    /\ work_sheet = <<>> /\ col_name_to_number = <<>> /\ xcall = NoCall

NoOrder ==
    /\ class_list = <<>> /\ classesIn = <<>> /\ loop = [pc |-> "idle"] /\ forward_refs = <<>>

(***************************************************************************)
(* The headers a behaviour starts from.  Key "a" takes every shape (a      *)
(* scalar, a list, a nested mapping), key "b" a scalar; nested mappings    *)
(* have a key "c" of every leaf shape and a scalar key "d".                *)
(***************************************************************************)
ListTrees == {ListTree([i \in DOMAIN q |-> IntTree(q[i])]) : q \in SeqsUpTo(Scalars, MaxList)}
LeafTrees == {IntTree(n) : n \in Scalars} \cup ListTrees

\* the mappings with an optional entry for k1 out of V1, then one for k2 out of V2
TwoKeyDicts(k1, V1, k2, V2) ==
    {DictTree(<<>>)}
      \cup {DictTree(<<Entry(k1, v1)>>) : v1 \in V1}
      \cup {DictTree(<<Entry(k2, v2)>>) : v2 \in V2}
      \cup {DictTree(<<Entry(k1, v1), Entry(k2, v2)>>) : v1 \in V1, v2 \in V2}

InnerDicts(n) == TwoKeyDicts("c", LeafTrees, "d", {IntTree(n)})
HeaderDicts(n) == TwoKeyDicts("a", LeafTrees \cup InnerDicts(n), "b", {IntTree(n)})

DestHeaders == HeaderDicts(1)
SrcHeaders == HeaderDicts(2)

InitMerge ==
    /\ NoParam /\ NoProps /\ NoSections /\ NoComponent /\ NoResolution
    /\ NoDict /\ NoXlsx /\ NoOrder
    /\ \E dt \in DestHeaders, st \in SrcHeaders :
        LET rd == Store(<<>>, dt)
            rs == Store(rd.h, st)
        IN  /\ heap = rs.h
            /\ dest = rd.v.n
            /\ srcs = <<rs.v.n>>
            /\ heapPre = rs.h
            /\ calls = <<>>

\* ControlInterface.merge_dicts_deep(dest, srcs[i], ow)
Merge(i, ow) ==
    /\ Len(calls) < MaxCalls
    /\ heap' = merge_dicts_deep(heap, dest, srcs[i], ow)
    /\ heapPre' = heap
    /\ calls' = Append(calls, [src |-> i, ow |-> ow])
    /\ UNCHANGED <<dest, srcs, paramVars, propVars, sectionVars, compVars, resVars, dictVars, xlsxVars, orderVars>>

NextMerge == \E i \in DOMAIN srcs, ow \in BOOLEAN : Merge(i, ow)

SpecMerge == InitMerge /\ [][NextMerge]_vars


(***************************************************************************)
(* Claims on merge_dicts_deep.  They relate the heap before the last call  *)
(* (heapPre) to the heap after it.                                         *)
(***************************************************************************)
LastCall == calls[Len(calls)]
DestBefore == Snapshot(heapPre, RefVal(dest))
DestAfter == Snapshot(heap, RefVal(dest))
SrcBefore == Snapshot(heapPre, RefVal(srcs[LastCall.src]))

TKeys(t) == {t.items[i].key : i \in DOMAIN t.items}
TGet(t, key) == t.items[CHOOSE i \in DOMAIN t.items : t.items[i].key = key].val
TElems(t) == [i \in DOMAIN t.items |-> t.items[i].val]

BothDicts(a, b) == a.k = "dict" /\ b.k = "dict"
BothLists(a, b) == a.k = "list" /\ b.k = "list"

\* a scalar collision keeps dest's value, or takes src's under overwrite
RECURSIVE ScalarRule(_, _, _, _)
ScalarRule(dpre, s, dpost, ow) ==
    \A key \in TKeys(dpre) \cap TKeys(s) :
        LET a == TGet(dpre, key)
            b == TGet(s, key)
        IN  /\ key \in TKeys(dpost)
            /\ IF BothDicts(a, b)
               THEN /\ TGet(dpost, key).k = "dict"
                    /\ ScalarRule(a, b, TGet(dpost, key), ow)
               ELSE IF BothLists(a, b) THEN TRUE
               ELSE TGet(dpost, key) = (IF ow THEN b ELSE a)

\* C1: after merge_dicts_deep(dest, src, overwrite), every key present in both
\* mappings at a level reached through mappings, whose two values are neither
\* both mappings nor both lists, holds src's value when overwrite is true and
\* dest's original value when it is false.
C1_ScalarCollision ==
    Len(calls) > 0 => ScalarRule(DestBefore, SrcBefore, DestAfter, LastCall.ow)

\* a nested collision of a list with a scalar, first kept, then overwritten
C1_Witness ==
    /\ Len(calls) = 2
    /\ ~calls[1].ow
    /\ calls[2].ow
    /\ "a" \in TKeys(DestBefore) /\ "a" \in TKeys(SrcBefore)
    /\ BothDicts(TGet(DestBefore, "a"), TGet(SrcBefore, "a"))
    /\ "c" \in TKeys(TGet(DestBefore, "a")) /\ "c" \in TKeys(TGet(SrcBefore, "a"))
    /\ TGet(TGet(DestBefore, "a"), "c").k = "list"
    /\ TGet(TGet(SrcBefore, "a"), "c") = IntTree(2)
    /\ TGet(TGet(DestAfter, "a"), "c") = IntTree(2)
    /\ "b" \in TKeys(DestBefore) /\ "b" \in TKeys(SrcBefore)
    /\ TGet(DestBefore, "b") = IntTree(1) /\ TGet(DestAfter, "b") = IntTree(2)

\* the elements of b that a lacks, each once, in b's order
Novel(a, b) ==
    LET keep == {j \in DOMAIN b : /\ \A i \in DOMAIN a : ~PyEq(a[i], b[j])
                                  /\ \A i \in 1..(j - 1) : ~PyEq(b[i], b[j])}
        F[j \in 0..Len(b)] ==
            IF j = 0 THEN <<>>
            ELSE IF j \in keep THEN Append(F[j - 1], b[j]) ELSE F[j - 1]
    IN  F[Len(b)]

RECURSIVE ListRule(_, _, _)
ListRule(dpre, s, dpost) ==
    \A key \in TKeys(dpre) \cap TKeys(s) :
        LET a == TGet(dpre, key)
            b == TGet(s, key)
        IN  /\ key \in TKeys(dpost)
            /\ IF BothDicts(a, b)
               THEN /\ TGet(dpost, key).k = "dict"
                    /\ ListRule(a, b, TGet(dpost, key))
               ELSE IF BothLists(a, b)
               THEN /\ TGet(dpost, key).k = "list"
                    /\ TElems(TGet(dpost, key)) = TElems(a) \o Novel(TElems(a), TElems(b))
               ELSE TRUE

\* C2: for a key holding a list on both sides, dest's list after the call is
\* its original list followed by the elements of src's list it lacked, in src
\* order, each once, whatever the overwrite flag.
C2_ListMerge ==
    Len(calls) > 0 => ListRule(DestBefore, SrcBefore, DestAfter)

\* dest [1] and src [2, 2] (or [2, 1]) give [1, 2] under overwrite
C2_Witness ==
    /\ Len(calls) = 1
    /\ LastCall.ow
    /\ "a" \in TKeys(DestBefore) /\ "a" \in TKeys(SrcBefore)
    /\ TGet(DestBefore, "a") = ListTree(<<IntTree(1)>>)
    /\ TGet(SrcBefore, "a").k = "list"
    /\ Len(TGet(SrcBefore, "a").items) = 2
    /\ TGet(DestAfter, "a") = ListTree(<<IntTree(1), IntTree(2)>>)

RECURSIVE KeyRule(_, _, _)
KeyRule(dpre, s, dpost) ==
    /\ TKeys(dpost) = TKeys(dpre) \cup TKeys(s)
    /\ \A key \in TKeys(s) \ TKeys(dpre) : TGet(dpost, key) = TGet(s, key)
    /\ \A key \in TKeys(dpre) \cap TKeys(s) :
           BothDicts(TGet(dpre, key), TGet(s, key)) =>
               /\ TGet(dpost, key).k = "dict"
               /\ KeyRule(TGet(dpre, key), TGet(s, key), TGet(dpost, key))

\* C3: every key only src has is in dest afterwards with src's value, no key
\* of dest is removed, and wherever both sides are mappings the key set is
\* the union of the two key sets; the overwrite flag does not matter.
C3_KeysAdded ==
    Len(calls) > 0 => KeyRule(DestBefore, SrcBefore, DestAfter)

\* without overwrite, a key is added at the top and one in the nested mapping
C3_Witness ==
    /\ Len(calls) = 1
    /\ ~LastCall.ow
    /\ TKeys(DestBefore) = {"a"} /\ TKeys(SrcBefore) = {"a", "b"}
    /\ BothDicts(TGet(DestBefore, "a"), TGet(SrcBefore, "a"))
    /\ TKeys(TGet(DestBefore, "a")) = {"d"}
    /\ TKeys(TGet(SrcBefore, "a")) = {"c"}
    /\ TKeys(TGet(DestAfter, "a")) = {"c", "d"}
    /\ TGet(DestAfter, "b") = IntTree(2)

\* C4: merging the same src with the same flag a second time leaves dest as
\* the first call left it.
C4_Idempotent ==
    (Len(calls) >= 2 /\ calls[Len(calls)] = calls[Len(calls) - 1]) =>
        DestAfter = DestBefore

\* the first call changed dest (a list grew, a scalar was overwritten, a key
\* was added), the second one changed nothing
C4_Witness ==
    /\ Len(calls) = 2
    /\ calls[1] = calls[2]
    /\ calls[1].ow
    /\ DestAfter = DestBefore
    /\ TKeys(DestAfter) = {"a", "b"}
    /\ TGet(DestAfter, "b") = IntTree(2)
    /\ TGet(DestAfter, "a").k = "dict"
    /\ TKeys(TGet(DestAfter, "a")) = {"c", "d"}
    /\ TGet(TGet(DestAfter, "a"), "c") = ListTree(<<IntTree(1), IntTree(2)>>)
    /\ TGet(TGet(DestAfter, "a"), "d") = IntTree(2)


(***************************************************************************)
(* param_to_str.  A Parameter is [id, label, values, select]: label is an  *)
(* Optional[str], values None or a list of strings, select None or         *)
(* [how_many, choice].  Values are non-empty strings and the id is a       *)
(* non-empty token, as the document model validates them.                  *)
(***************************************************************************)
NoSelect == [isNone |-> TRUE, how_many |-> "", choice |-> NoList]
Select(hm, ch) == [isNone |-> FALSE, how_many |-> hm, choice |-> ch]

\* class ParameterRep(Enum)
ParameterRep ==
    {"LEAVE_MOUSTACHE", "VALUE_OR_STRING_NONE", "LABEL_OR_CHOICES",
     "VALUE_OR_LABEL_OR_CHOICES", "VALUE_OR_EMPTY_STRING"}

Bracketed(s) == <<"[">> \o s \o <<"]">>                \* f'[{s}]'

\* what a call returns (a str or None) or that it raised TrestleError
Raised == [isNone |-> FALSE, s |-> <<>>, raised |-> TRUE]
Returned(o) == [isNone |-> o.isNone, s |-> o.s, raised |-> FALSE]

\* [val.__root__ for val in as_list(param.values)]
ParamValuesAsStrList(p) == p.values.list

\* _param_values_as_str(param, brackets)
ParamValuesAsStr(p, brackets) ==
    IF p.values.isNone \/ p.values.list = <<>> THEN None
    ELSE LET values_str == Join(<<",", " ">>, ParamValuesAsStrList(p))
         IN  Str(IF brackets THEN Bracketed(values_str) ELSE values_str)

\* _param_selection_as_str(param, verbose, brackets)
ParamSelectionAsStr(p, verbose, brackets) ==
    IF ~p.select.isNone /\ ~p.select.choice.isNone /\ p.select.choice.list # <<>>
    THEN LET how_many_str ==
                 IF p.select.how_many = "" THEN <<>>
                 ELSE IF p.select.how_many = "one" THEN <<"o", "n", "e">>
                 ELSE <<"o", "n", "e", " ", "o", "r", " ", "m", "o", "r", "e">>
             joined == Join(<<";", " ">>, p.select.choice.list)
             choices_str == IF brackets THEN Bracketed(joined) ELSE joined
         IN  IF verbose
             THEN <<"C", "h", "o", "o", "s", "e", " ">> \o how_many_str
                      \o <<":", " ">> \o choices_str
             ELSE choices_str
    ELSE <<>>

\* _param_label_choices_as_str(param, verbose, brackets)
ParamLabelChoicesAsStr(p, verbose, brackets) ==
    LET choices == ParamSelectionAsStr(p, verbose, brackets)
        text == IF choices # <<>> THEN Str(choices) ELSE p.label
    IN  IF Truthy(text) THEN text ELSE Str(p.id)

\* mutant: two markers are let through
TooManyDots_Two(fmt) == Count(fmt, ".") > 2

\* params_format.count('.') > 1
TooManyDots(fmt) == Count(fmt, ".") > 1

\* the tail of param_to_str: the format check and the substitution
ApplyFormat(param_str, params_format) ==
    IF ~param_str.isNone /\ Truthy(params_format)
    THEN IF TooManyDots(params_format.s)
         THEN Raised
         ELSE Returned(Str(Replace(params_format.s, ".", param_str.s)))
    ELSE Returned(param_str)

\* mutant: the brackets flag is passed on to the values
ValueOrStringNone_Brackets(p, brackets) ==
    LET v == ParamValuesAsStr(p, brackets)
    IN  IF Truthy(v) THEN v ELSE Str(<<"N", "o", "n", "e">>)

\* the VALUE_OR_STRING_NONE branch
ValueOrStringNone(p, brackets) ==
    LET v == ParamValuesAsStr(p, FALSE)
    IN  IF Truthy(v) THEN v ELSE Str(<<"N", "o", "n", "e">>)

\* the branches of param_to_str, param_str before the format is applied
ParamStr(p, param_rep, verbose, brackets) ==
    CASE param_rep = "VALUE_OR_STRING_NONE" -> ValueOrStringNone(p, brackets)
      [] param_rep = "LABEL_OR_CHOICES" -> ParamLabelChoicesAsStr(p, verbose, brackets)
      [] param_rep = "VALUE_OR_LABEL_OR_CHOICES" ->
             LET v == ParamValuesAsStr(p, FALSE)
             IN  IF Truthy(v) THEN v ELSE ParamLabelChoicesAsStr(p, verbose, brackets)
      [] param_rep = "VALUE_OR_EMPTY_STRING" ->
             LET v == ParamValuesAsStr(p, brackets)
             IN  IF Truthy(v) THEN v ELSE Str(<<>>)
      [] OTHER -> None

param_to_str(p, param_rep, verbose, brackets, params_format) ==
    ApplyFormat(ParamStr(p, param_rep, verbose, brackets), params_format)

ValueStrs == {<<"x">>, <<"y">>}
Values == {NoList} \cup {List(l) : l \in SeqsUpTo(ValueStrs, MaxVals) \ {<<>>}}
Labels == {None, Str(<<"L">>)}
Selects ==
    {NoSelect} \cup {Select(hm, ch) : hm \in {"", "one", "one-or-more"},
                                      ch \in {NoList, List(<<<<"c">>, <<"e">>>>)}}
Parameters ==
    {[id |-> <<"p">>, label |-> lb, values |-> vs, select |-> sl] :
        lb \in Labels, vs \in Values, sl \in Selects}
Formats == {None} \cup {Str(f) : f \in SeqsUpTo({".", "*"}, MaxFmt)}

InitParam ==
    /\ NoMerge /\ NoProps /\ NoSections /\ NoComponent /\ NoResolution
    /\ NoDict /\ NoXlsx /\ NoOrder
    /\ param \in Parameters
    /\ pcall = NoCall
    /\ presult = Returned(None)

\* ControlInterface.param_to_str(param, param_rep, verbose, brackets, params_format)
ParamToStr(param_rep, verbose, brackets, params_format) ==
    /\ ~pcall.made
    /\ pcall' = [made |-> TRUE, param_rep |-> param_rep, verbose |-> verbose,
                 brackets |-> brackets, params_format |-> params_format]
    /\ presult' = param_to_str(param, param_rep, verbose, brackets, params_format)
    /\ UNCHANGED <<param, mergeVars, propVars, sectionVars, compVars, resVars, dictVars, xlsxVars, orderVars>>

NextParam ==
    \E param_rep \in ParameterRep, verbose \in BOOLEAN, brackets \in BOOLEAN,
       params_format \in Formats :
        ParamToStr(param_rep, verbose, brackets, params_format)

SpecParam == InitParam /\ [][NextParam]_vars

(***************************************************************************)
(* Claims on param_to_str                                                  *)
(***************************************************************************)
\* the text a call renders when it is given no template
Rendered == param_to_str(param, pcall.param_rep, pcall.verbose, pcall.brackets, None)

\* the template with its single marker, at position i, replaced by text
Substituted(fmt, text) ==
    LET i == CHOOSE j \in DOMAIN fmt : fmt[j] = "."
    IN  SubSeq(fmt, 1, i - 1) \o text \o SubSeq(fmt, i + 1, Len(fmt))

FormatGiven == pcall.made /\ ~pcall.params_format.isNone

\* C5 as claimed: a template with more than one marker makes param_to_str
\* fail in every one of the five modes.
C5_Original ==
    (FormatGiven /\ Count(pcall.params_format.s, ".") > 1) => presult = Raised

\* C5, amended: in the four modes that render text (every mode but
\* LEAVE_MOUSTACHE) a template with more than one marker makes param_to_str
\* fail and a template with exactly one marker returns the template with the
\* marker replaced by the rendered text; in mode LEAVE_MOUSTACHE the template
\* is not looked at and the call returns None.
C5_FormatMarkers ==
    FormatGiven =>
        IF pcall.param_rep = "LEAVE_MOUSTACHE"
        THEN presult = Returned(None)
        ELSE /\ Count(pcall.params_format.s, ".") > 1 => presult = Raised
             /\ Count(pcall.params_format.s, ".") = 1 =>
                    /\ ~Rendered.raised /\ ~Rendered.isNone
                    /\ presult = Returned(Str(Substituted(pcall.params_format.s, Rendered.s)))

\* ".*." is refused although the text to substitute is the empty string
C5_Witness ==
    /\ pcall.made
    /\ pcall.param_rep = "VALUE_OR_EMPTY_STRING"
    /\ param.values.isNone
    /\ pcall.params_format = Str(<<".", "*", ".">>)
    /\ presult = Raised

\* values joined left to right with ', '
JoinedValues(l) ==
    LET F[i \in 0..Len(l)] ==
            IF i = 0 THEN <<>>
            ELSE IF i = 1 THEN l[1]
            ELSE F[i - 1] \o <<",", " ">> \o l[i]
    IN  F[Len(l)]

Property(name, value) == [name |-> name, value |-> value, remarks |-> None]

\* [prop.name for prop in as_list(part_control.props)]
Names(o) == [i \in DOMAIN as_list(o) |-> as_list(o)[i].name]

\* names.index(name)
Index(names, name) ==
    CHOOSE i \in DOMAIN names : names[i] = name /\ \A j \in 1..(i - 1) : names[j] # name

\* del lst[index]
Del(lst, index) == SubSeq(lst, 1, index - 1) \o SubSeq(lst, index + 1, Len(lst))

\* mutant: the last property of that name answers
get_prop_Last(o, prop_name, default) ==
    LET lst == as_list(o)
        hits == {i \in DOMAIN lst : Lower(Strip(lst[i].name)) = Lower(Strip(prop_name))}
    IN  IF hits # {}
        THEN Strip(lst[CHOOSE i \in hits : \A j \in hits : j <= i].value)
        ELSE IF Truthy(default) THEN default.s ELSE <<>>

\* ControlInterface.get_prop
get_prop(o, prop_name, default) ==
    LET lst == as_list(o)
        hits == {i \in DOMAIN lst : Lower(Strip(lst[i].name)) = Lower(Strip(prop_name))}
    IN  IF hits # {}
        THEN Strip(lst[CHOOSE i \in hits : \A j \in hits : i <= j].value)
        ELSE IF Truthy(default) THEN default.s ELSE <<>>

\* mutant: the list is left as it is, empty or not
delete_prop_KeepEmpty(o, prop_name) ==
    LET names == Names(o)
    IN  IF prop_name \in Range(names)
        THEN List(Del(o.list, Index(names, prop_name)))
        ELSE o

\* ControlInterface._delete_prop
delete_prop(o, prop_name) ==
    LET names == Names(o)
        deleted == IF prop_name \in Range(names)
                   THEN List(Del(o.list, Index(names, prop_name)))
                   ELSE o
    IN  none_if_empty(deleted)

\* mutant: the new property takes the place of the one it replaces
replace_prop_InPlace(o, new_prop) ==
    LET names == Names(o)
    IN  IF new_prop.name \in Range(names)
        THEN List([o.list EXCEPT ![Index(names, new_prop.name)] = new_prop])
        ELSE List(Append(as_list(o), new_prop))

\* ControlInterface._replace_prop
replace_prop(o, new_prop) ==
    LET names == Names(o)
        deleted == IF new_prop.name \in Range(names)
                   THEN List(Del(o.list, Index(names, new_prop.name)))
                   ELSE o
    IN  List(Append(as_list(deleted), new_prop))

PropNames == {<<"a">>, <<"A", " ">>, <<"b">>}
PropValues == {<<"v">>, <<" ", "w">>}
Properties == {Property(n, v) : n \in PropNames, v \in PropValues}
Defaults == {None, Str(<<>>), Str(<<"d">>)}

InitProps ==
    /\ NoMerge /\ NoParam /\ NoSections /\ NoComponent /\ NoResolution
    /\ NoDict /\ NoXlsx /\ NoOrder
    /\ props \in {NoList} \cup {List(l) : l \in SeqsUpTo(Properties, MaxProps) \ {<<>>}}
    /\ propsPre = props
    /\ plast = NoCall

\* ControlInterface.get_prop(node, prop_name, default)
GetProp(prop_name, default) ==
    /\ plast' = [made |-> TRUE, op |-> "get", name |-> prop_name, value |-> <<>>,
                 default |-> default, result |-> get_prop(props, prop_name, default)]
    /\ propsPre' = props
    /\ UNCHANGED <<props, mergeVars, paramVars, sectionVars, compVars, resVars, dictVars, xlsxVars, orderVars>>

\* ControlInterface._delete_prop(node, prop_name)
DeleteProp(prop_name) ==
    /\ props' = delete_prop(props, prop_name)
    /\ propsPre' = props
    /\ plast' = [made |-> TRUE, op |-> "delete", name |-> prop_name, value |-> <<>>,
                 default |-> None, result |-> <<>>]
    /\ UNCHANGED <<mergeVars, paramVars, sectionVars, compVars, resVars, dictVars, xlsxVars, orderVars>>

\* ControlInterface._replace_prop(node, new_prop)
ReplaceProp(new_prop) ==
    /\ Len(replace_prop(props, new_prop).list) <= MaxProps
    /\ props' = replace_prop(props, new_prop)
    /\ propsPre' = props
    /\ plast' = [made |-> TRUE, op |-> "replace", name |-> new_prop.name,
                 value |-> new_prop.value, default |-> None, result |-> <<>>]
    /\ UNCHANGED <<mergeVars, paramVars, sectionVars, compVars, resVars, dictVars, xlsxVars, orderVars>>

NextProps ==
    \/ \E n \in PropNames, d \in Defaults : GetProp(n, d)
    \/ \E n \in PropNames : DeleteProp(n)
    \/ \E p \in Properties : ReplaceProp(p)

SpecProps == InitProps /\ [][NextProps]_vars

(***************************************************************************)
(* Claims on the property operations                                       *)
(***************************************************************************)
\* the properties a node has, None read as none
Before == IF propsPre.isNone THEN <<>> ELSE propsPre.list
After == IF props.isNone THEN <<>> ELSE props.list

\* lst without its i-th element
Without(lst, i) == [j \in 1..(Len(lst) - 1) |-> IF j < i THEN lst[j] ELSE lst[j + 1]]

\* lst without the first property named name, if it has one
FirstRemoved(lst, name) ==
    IF \E i \in DOMAIN lst : lst[i].name = name
    THEN Without(lst, CHOOSE i \in DOMAIN lst :
                          lst[i].name = name /\ \A j \in DOMAIN lst : lst[j].name = name => i <= j)
    ELSE lst

\* C7: replace_property removes at most one property, the first whose name
\* equals the new one's, and appends the new property last; the others keep
\* their order, so the length grows by one (no match) or stays (match).
C7_ReplaceProp ==
    (plast.made /\ plast.op = "replace") =>
        /\ After = Append(FirstRemoved(Before, plast.name),
                          Property(plast.name, plast.value))
        /\ Len(After) - Len(Before) \in {0, 1}
        /\ Len(After) = Len(Before) <=> \E i \in DOMAIN Before : Before[i].name = plast.name

\* of two properties of one name the first is removed, the second stays ahead
\* of the new one
C7_Witness ==
    /\ plast.made /\ plast.op = "replace"
    /\ Len(Before) = 2
    /\ Before[1].name = plast.name /\ Before[2].name = plast.name
    /\ Before[1].value # Before[2].value
    /\ After = <<Before[2], Property(plast.name, plast.value)>>
    /\ plast.value # Before[2].value

\* C8: delete_property removes at most one property, the first of that name,
\* keeps the others in order and turns an empty result into None: whatever
\* calls were made, a node's props are None or a non-empty list.
C8_DeleteProp ==
    /\ props.isNone \/ props.list # <<>>
    /\ (plast.made /\ plast.op = "delete") => After = FirstRemoved(Before, plast.name)

\* the only property of a node is deleted and props is None
C8_Witness ==
    /\ plast.made /\ plast.op = "delete"
    /\ Len(Before) = 1
    /\ Before[1].name = plast.name
    /\ props = NoList

\* a name without the blanks around it, in lower case
Core(s) ==
    LET solid == {i \in DOMAIN s : s[i] # " "}
    IN  IF solid = {} THEN <<>>
        ELSE LET lo == CHOOSE i \in solid : \A j \in solid : i <= j
                 hi == CHOOSE i \in solid : \A j \in solid : j <= i
             IN  [i \in 1..(hi - lo + 1) |->
                     IF s[lo + i - 1] = "A" THEN "a"
                     ELSE IF s[lo + i - 1] = "B" THEN "b"
                     ELSE s[lo + i - 1]]

Trimmed(s) ==
    LET solid == {i \in DOMAIN s : s[i] # " "}
    IN  IF solid = {} THEN <<>>
        ELSE SubSeq(s, CHOOSE i \in solid : \A j \in solid : i <= j,
                       CHOOSE i \in solid : \A j \in solid : j <= i)

\* C9: get_property returns the trimmed value of the first property whose
\* name equals the requested one after trimming and ignoring case, and the
\* default, or the empty string without one, when no property matches.
C9_GetProp ==
    (plast.made /\ plast.op = "get") =>
        IF \E i \in DOMAIN Before : Core(Before[i].name) = Core(plast.name)
        THEN \E i \in DOMAIN Before :
                 /\ Core(Before[i].name) = Core(plast.name)
                 /\ \A j \in 1..(i - 1) : Core(Before[j].name) # Core(plast.name)
                 /\ plast.result = Trimmed(Before[i].value)
        ELSE plast.result = (IF plast.default.isNone THEN <<>> ELSE plast.default.s)

\* "a" is asked for; "A " comes first and its value " w" is returned as "w"
C9_Witness ==
    /\ plast.made /\ plast.op = "get"
    /\ plast.name = <<"a">>
    /\ Len(Before) = 2
    /\ Before[1] = Property(<<"A", " ">>, <<" ", "w">>)
    /\ Before[2] = Property(<<"a">>, <<"v">>)
    /\ plast.result = <<"w">>


(***************************************************************************)
(* Sections of a control.  A Part is [id, name, title, prose, props,        *)
(* parts]: the id and the name are strings, title and prose Optional[str], *)
(* props None or a list of properties, parts the list of sub-parts (None   *)
(* and the empty list are both read as no parts).                          *)
(***************************************************************************)
Part(id, name, title, prose, sub) ==
    [id |-> id, name |-> name, title |-> title, prose |-> prose, props |-> NoList,
     parts |-> sub]

Triple(id, name, title) == [id |-> id, name |-> name, title |-> title]
EmptyTriple == Triple(<<>>, <<>>, Str(<<>>))                 \* '', '', ''

\* mutant: the skip list is not consulted
Unconsumed_NoSkip(part, skip_section_list) == Truthy(part.prose)

\* part.prose and part.name not in skip_section_list
Unconsumed(part, skip_section_list) ==
    Truthy(part.prose) /\ part.name \notin Range(skip_section_list)

\* ControlInterface._find_section_info, and its loop over part.parts from
\* the i-th sub-part on
RECURSIVE find_section_info(_, _)
RECURSIVE FindInParts(_, _, _)
FindInParts(sub, skip_section_list, i) ==
    IF i > Len(sub) THEN EmptyTriple
    ELSE LET found == find_section_info(sub[i], skip_section_list)
         IN  IF found.id # <<>> THEN found
             ELSE FindInParts(sub, skip_section_list, i + 1)

find_section_info(part, skip_section_list) ==
    IF Unconsumed(part, skip_section_list)
    THEN Triple(part.id, part.name, part.title)
    ELSE FindInParts(part.parts, skip_section_list, 1)

\* ControlInterface._find_section
find_section(control_parts, skip_section_list) ==
    FindInParts(control_parts, skip_section_list, 1)

\* the parts a behaviour starts from: every forest of at most MaxParts parts;
\* a part is a statement without title or a titled guidance section, its
\* prose absent, empty or given, its id its place in the control
SectionNames == {<<"s">>, <<"g">>}
TitleOf(name) == IF name = <<"g">> THEN Str(<<"T">>) ELSE None
Proses == {None, Str(<<>>), Str(<<"p">>)}

RECURSIVE Forests(_)
Forests(n) ==
    IF n = 0 THEN {<<>>}
    ELSE UNION {
        {<<Part(<<>>, name, TitleOf(name), prose, sub)>> \o rest :
            name \in SectionNames, prose \in Proses,
            sub \in Forests(k), rest \in Forests(n - 1 - k)} : k \in 0..(n - 1)}

Digit(i) == <<"1", "2", "3", "4", "5", "6", "7", "8", "9">>[i]

\* the forest with each part's id set to prefix.<place>, sub-parts likewise
RECURSIVE WithIds(_, _)
WithIds(forest, prefix) ==
    [i \in DOMAIN forest |->
        LET id == prefix \o <<".", Digit(i)>>
        IN  [forest[i] EXCEPT !.id = id, !.parts = WithIds(forest[i].parts, id)]]

ControlParts(n) == {WithIds(f, <<"c">>) : f \in UNION {Forests(m) : m \in 0..n}}
SkipLists == {<<>>, <<<<"s">>>>, <<<<"g">>>>, <<<<"s">>, <<"g">>>>}

InitSections ==
    /\ NoMerge /\ NoParam /\ NoProps /\ NoComponent /\ NoResolution
    /\ NoDict /\ NoXlsx /\ NoOrder
    /\ parts \in ControlParts(MaxParts)
    /\ scall = NoCall
    /\ sresult = EmptyTriple

\* ControlInterface._find_section(control, skip_section_list)
FindSection(skip_section_list) ==
    /\ ~scall.made
    /\ scall' = [made |-> TRUE, op |-> "find_section", skip |-> skip_section_list]
    /\ sresult' = find_section(parts, skip_section_list)
    /\ UNCHANGED <<parts, mergeVars, paramVars, propVars, compVars, resVars, dictVars, xlsxVars, orderVars>>

NextSections == \E skip \in SkipLists : FindSection(skip)

SpecSections == InitSections /\ [][NextSections]_vars

(***************************************************************************)
(* Claims on the section search                                            *)
(***************************************************************************)
\* the parts of a forest in document order: a part, then its sub-parts
RECURSIVE PreOrder(_)
PreOrder(forest) ==
    IF forest = <<>> THEN <<>>
    ELSE <<forest[1]>> \o PreOrder(forest[1].parts) \o PreOrder(Tail(forest))

HasProse(part) == ~part.prose.isNone /\ Len(part.prose.s) > 0

Wanted(part, skip) == HasProse(part) /\ \A i \in DOMAIN skip : skip[i] # part.name

\* C10: find_section returns the id, name and title of the first part, in
\* pre-order over the part tree, that has non-empty prose and a name outside
\* skip_names, and the empty triple if and only if there is no such part.
C10_FindSection ==
    (scall.made /\ scall.op = "find_section") =>
        LET all == PreOrder(parts)
            hits == {i \in DOMAIN all : Wanted(all[i], scall.skip)}
        IN  /\ sresult = EmptyTriple <=> hits = {}
            /\ hits # {} =>
                   LET first == CHOOSE i \in hits : \A j \in hits : i <= j
                   IN  sresult = Triple(all[first].id, all[first].name, all[first].title)

\* the first part has prose but a skipped name, its sub-part is the section
\* found, ahead of the second top-level part, which also qualifies
C10_Witness ==
    /\ scall.made /\ scall.op = "find_section"
    /\ scall.skip = <<<<"s">>>>
    /\ Len(parts) = 2
    /\ parts[1].name = <<"s">> /\ HasProse(parts[1])
    /\ Len(parts[1].parts) = 1
    /\ parts[2].name = <<"g">> /\ HasProse(parts[2])
    /\ sresult = Triple(<<"c", ".", "1", ".", "1">>, <<"g">>, Str(<<"T">>))


(***************************************************************************)
(* Section prose: _gap_join, _get_control_section_part and                 *)
(* _get_control_section_prose                                              *)
(***************************************************************************)
\* mutant: the piece joined on is not stripped
gap_join_Raw(a_str, b_str) ==
    LET a_clean == Strip(a_str)
    IN  IF Strip(b_str) = <<>> THEN a_clean
        ELSE a_clean \o (IF a_clean # <<>> THEN <<"\n">> ELSE <<>>) \o b_str

\* ControlInterface._gap_join
gap_join(a_str, b_str) ==
    LET a_clean == Strip(a_str)
        b_clean == Strip(b_str)
    IN  IF b_clean = <<>> THEN a_clean
        ELSE a_clean \o (IF a_clean # <<>> THEN <<"\n">> ELSE <<>>) \o b_clean

\* ControlInterface._get_control_section_part, and its loop over part.parts
\* from the i-th sub-part on with the prose gathered so far
RECURSIVE get_control_section_part(_, _)
RECURSIVE SectionPartsFrom(_, _, _, _)
SectionPartsFrom(sub, section_name, i, prose) ==
    IF i > Len(sub) THEN prose
    ELSE SectionPartsFrom(sub, section_name, i + 1,
             gap_join(prose, get_control_section_part(sub[i], section_name)))

get_control_section_part(part, section_name) ==
    LET prose == IF part.name = section_name /\ ~part.prose.isNone
                 THEN gap_join(<<>>, part.prose.s)
                 ELSE <<>>
    IN  SectionPartsFrom(part.parts, section_name, 1, prose)

\* ControlInterface._get_control_section_prose
get_control_section_prose(control_parts, section_name) ==
    SectionPartsFrom(control_parts, section_name, 1, <<>>)

\* the parts a behaviour starts from: as for the section search, with prose
\* that is absent, blank, or text with or without whitespace around it
PaddedProses == {None, Str(<<" ">>), Str(<<"p">>), Str(<<" ", "q", " ", "r", "\n">>)}

\* a part named "g" has any of these, a part named "s" plain text
NamedProses ==
    {[name |-> <<"g">>, prose |-> prose] : prose \in PaddedProses}
    \cup {[name |-> <<"s">>, prose |-> Str(<<"p">>)]}

RECURSIVE ProseForests(_)
ProseForests(n) ==
    IF n = 0 THEN {<<>>}
    ELSE UNION {
        {<<Part(<<>>, np.name, TitleOf(np.name), np.prose, sub)>> \o rest :
            np \in NamedProses,
            sub \in ProseForests(k), rest \in ProseForests(n - 1 - k)} : k \in 0..(n - 1)}

ProseControlParts(n) == {WithIds(f, <<"c">>) : f \in UNION {ProseForests(m) : m \in 0..n}}

InitProse ==
    /\ NoMerge /\ NoParam /\ NoProps /\ NoComponent /\ NoResolution
    /\ NoDict /\ NoXlsx /\ NoOrder
    /\ parts \in ProseControlParts(MaxParts)
    /\ scall = NoCall
    /\ sresult = <<>>

\* ControlInterface._get_control_section_prose(control, section_name)
GetSectionProse(section_name) ==
    /\ ~scall.made
    /\ scall' = [made |-> TRUE, op |-> "section_prose", name |-> section_name]
    /\ sresult' = get_control_section_prose(parts, section_name)
    /\ UNCHANGED <<parts, mergeVars, paramVars, propVars, compVars, resVars, dictVars, xlsxVars, orderVars>>

\* ControlInterface.get_part_prose: the loop over control.parts from the i-th
\* part on with the prose gathered so far (prose += ...), and the final strip
RECURSIVE PartProseFrom(_, _, _, _)
PartProseFrom(control_parts, part_name, i, prose) ==
    IF i > Len(control_parts) THEN prose
    ELSE PartProseFrom(control_parts, part_name, i + 1,
             prose \o get_control_section_part(control_parts[i], part_name))

get_part_prose(control_parts, part_name) ==
    Strip(PartProseFrom(control_parts, part_name, 1, <<>>))

\* ControlInterface.get_part_prose(control, part_name)
GetPartProse(part_name) ==
    /\ ~scall.made
    /\ scall' = [made |-> TRUE, op |-> "part_prose", name |-> part_name]
    /\ sresult' = get_part_prose(parts, part_name)
    /\ UNCHANGED <<parts, mergeVars, paramVars, propVars, compVars, resVars, dictVars, xlsxVars, orderVars>>

NextProse ==
    \/ \E section_name \in SectionNames : GetSectionProse(section_name)
    \/ \E part_name \in SectionNames : GetPartProse(part_name)

SpecProse == InitProse /\ [][NextProse]_vars

(***************************************************************************)
(* Claims on the section prose                                             *)
(***************************************************************************)
White(c) == c = " " \/ c = "\n" \/ c = "\t"

\* s from its first to its last character that is not whitespace
Bare(s) ==
    LET solid == {i \in DOMAIN s : ~White(s[i])}
    IN  IF solid = {} THEN <<>>
        ELSE SubSeq(s, CHOOSE i \in solid : \A j \in solid : i <= j,
                       CHOOSE i \in solid : \A j \in solid : j <= i)

\* the stripped prose of the parts named name, in document order, blanks dropped
Pieces(forest, name) ==
    LET all == PreOrder(forest)
        named == SelectSeq(all, LAMBDA p : p.name = name /\ ~p.prose.isNone)
        bare == [i \in DOMAIN named |-> Bare(named[i].prose.s)]
    IN  SelectSeq(bare, LAMBDA t : t # <<>>)

\* pieces with one newline between neighbours
Lines(pieces) ==
    LET F[i \in 0..Len(pieces)] ==
            IF i = 0 THEN <<>>
            ELSE IF i = 1 THEN pieces[1]
            ELSE F[i - 1] \o <<"\n">> \o pieces[i]
    IN  F[Len(pieces)]

\* C11: get_section_prose is the prose of all parts of that name, at any
\* depth, in document order, each stripped, blank pieces dropped, the rest
\* joined by exactly one newline; it neither starts nor ends with whitespace.
C11_SectionProse ==
    (scall.made /\ scall.op = "section_prose") =>
        /\ sresult = Lines(Pieces(parts, scall.name))
        /\ sresult # <<>> => ~White(sresult[1]) /\ ~White(sresult[Len(sresult)])

\* a padded piece in a sub-part between a blank piece above it and a plain
\* piece in the next top-level part
C11_Witness ==
    /\ scall.made /\ scall.op = "section_prose"
    /\ scall.name = <<"g">>
    /\ Len(parts) = 2
    /\ parts[1].name = <<"g">> /\ parts[1].prose = Str(<<" ">>)
    /\ Len(parts[1].parts) = 1
    /\ parts[1].parts[1].name = <<"g">>
    /\ parts[1].parts[1].prose = Str(<<" ", "q", " ", "r", "\n">>)
    /\ parts[2].name = <<"g">> /\ parts[2].prose = Str(<<"p">>)
    /\ sresult = <<"q", " ", "r", "\n", "p">>


(***************************************************************************)
(* get_part: the statement of a control as nested lists of lines.  An      *)
(* element of the result is a string or a list of such elements.           *)
(***************************************************************************)
StrItem(s) == [isList |-> FALSE, s |-> s, list |-> <<>>]
ListItem(l) == [isList |-> TRUE, s |-> <<>>, list |-> l]

StatementName == <<"s", "t", "a", "t", "e", "m", "e", "n", "t">>
ItemName == <<"i", "t", "e", "m">>
LabelName == <<"l", "a", "b", "e", "l">>

\* ControlInterface._wrap_label
wrap_label(label) ==
    IF label = <<>> THEN <<>> ELSE <<"\\", "[">> \o label \o <<"\\", "]">>

\* ControlInterface.get_label
get_label(part) == get_prop(part.props, LabelName, None)

\* id.split('.')[-1]
LastSegment(id) ==
    LET dots == {i \in DOMAIN id : id[i] = "."}
    IN  IF dots = {} THEN id
        ELSE SubSeq(id, (CHOOSE i \in dots : \A j \in dots : j <= i) + 1, Len(id))

\* the line get_part writes for a part
PartLine(part) ==
    LET found == get_label(part)
        label == IF found = <<>> THEN LastSegment(part.id) ELSE found
        wrapped_label == wrap_label(label)
        pad == IF wrapped_label = <<>> \/ ~Truthy(part.prose) THEN <<>> ELSE <<" ">>
        prose == IF part.prose.isNone THEN <<>> ELSE part.prose.s
    IN  wrapped_label \o pad \o prose

\* mutant: skip_id is not looked at
OwnLine_Always(part, skip_id) == <<StrItem(PartLine(part))>>

\* if part.id != skip_id: items.append(...)
OwnLine(part, skip_id) ==
    IF Str(part.id) # skip_id THEN <<StrItem(PartLine(part))>> ELSE <<>>

\* ControlInterface.get_part, and its loop over part.parts from the i-th
\* sub-part on with the sub_list gathered so far
RECURSIVE get_part(_, _, _)
RECURSIVE SubListFrom(_, _, _, _, _)
SubListFrom(sub, item_type, skip_id, i, sub_list) ==
    IF i > Len(sub) THEN Append(sub_list, StrItem(<<>>))
    ELSE SubListFrom(sub, item_type, skip_id, i + 1,
                     sub_list \o get_part(sub[i], item_type, skip_id))

get_part(part, item_type, skip_id) ==
    IF part.name \in {StatementName, item_type}
    THEN OwnLine(part, skip_id)
           \o (IF part.parts # <<>>
               THEN <<ListItem(SubListFrom(part.parts, item_type, skip_id, 1, <<>>))>>
               ELSE <<>>)
    ELSE <<>>

\* the parts a behaviour starts from: one part with at most MaxParts - 1
\* parts below it; a part is a statement, an item or a section of another
\* name, without prose, with prose, or with prose and a label property
PartNames == {StatementName, ItemName, <<"g">>}
PartBodies ==
    {[prose |-> None, props |-> NoList],
     [prose |-> Str(<<"p">>), props |-> NoList],
     [prose |-> Str(<<"p">>), props |-> List(<<Property(LabelName, <<"(", "a", ")">>)>>)]}

RECURSIVE StatementForests(_)
StatementForests(n) ==
    IF n = 0 THEN {<<>>}
    ELSE UNION {
        {<<[Part(<<>>, name, None, body.prose, sub) EXCEPT !.props = body.props]>> \o rest :
            name \in PartNames, body \in PartBodies,
            sub \in StatementForests(k), rest \in StatementForests(n - 1 - k)} :
        k \in 0..(n - 1)}

StatementParts(n) ==
    {WithIds(f, <<"c">>) : f \in {g \in UNION {StatementForests(m) : m \in 1..n} : Len(g) = 1}}

SkipIds == {None, Str(<<"c", ".", "1">>), Str(<<"c", ".", "1", ".", "1">>)}

InitPart ==
    /\ NoMerge /\ NoParam /\ NoProps /\ NoComponent /\ NoResolution
    /\ NoDict /\ NoXlsx /\ NoOrder
    /\ parts \in StatementParts(MaxParts)
    /\ scall = NoCall
    /\ sresult = <<>>

\* ControlInterface.get_part(part, item_type, skip_id)
GetPart(item_type, skip_id) ==
    /\ ~scall.made
    /\ scall' = [made |-> TRUE, op |-> "get_part", item_type |-> item_type,
                 skip_id |-> skip_id]
    /\ sresult' = get_part(parts[1], item_type, skip_id)
    /\ UNCHANGED <<parts, mergeVars, paramVars, propVars, compVars, resVars, dictVars, xlsxVars, orderVars>>

NextPart == \E skip_id \in SkipIds : GetPart(ItemName, skip_id)

SpecPart == InitPart /\ [][NextPart]_vars

(***************************************************************************)
(* Claims on get_part                                                      *)
(***************************************************************************)
\* the lines of a nested result in order, each with the depth of its list;
\* the empty string that closes a sub-list is no line
RECURSIVE LinesAt(_, _)
LinesAt(items, depth) ==
    IF items = <<>> THEN <<>>
    ELSE (IF items[1].isList THEN LinesAt(items[1].list, depth + 1)
          ELSE IF items[1].s = <<>> THEN <<>>
          ELSE <<[line |-> items[1].s, depth |-> depth]>>)
         \o LinesAt(Tail(items), depth)

Rendering(part_name) == part_name = StatementName \/ part_name = scall.item_type

\* the label of a part: its label property, else the end of its id
LabelOf(part) ==
    IF \E i \in DOMAIN part.props.list : part.props.list[i].name = LabelName
    THEN part.props.list[CHOOSE i \in DOMAIN part.props.list :
                             part.props.list[i].name = LabelName].value
    ELSE LET n == Len(part.id)
             k == CHOOSE j \in 0..n :
                      /\ \A i \in (n - j + 1)..n : part.id[i] # "."
                      /\ (j = n \/ part.id[n - j] = ".")
         IN  SubSeq(part.id, n - k + 1, n)

\* \[label\], a blank if there is prose, the prose
LineOf(part) ==
    <<"\\", "[">> \o LabelOf(part) \o <<"\\", "]">>
        \o (IF HasProse(part) THEN <<" ">> \o part.prose.s ELSE <<>>)

\* the parts of a forest in document order with their depth; with chained,
\* only parts reached through parts that are rendered themselves
RECURSIVE Walk(_, _, _)
Walk(forest, depth, chained) ==
    IF forest = <<>> THEN <<>>
    ELSE (IF Rendering(forest[1].name)
          THEN <<[part |-> forest[1], depth |-> depth]>>
                   \o Walk(forest[1].parts, depth + 1, chained)
          ELSE IF chained THEN <<>>
          ELSE Walk(forest[1].parts, depth + 1, chained))
         \o Walk(Tail(forest), depth, chained)

\* the lines for the parts walked, the part named by skip_id left out
Expected(walk) ==
    LET kept == SelectSeq(walk, LAMBDA w : Str(w.part.id) # scall.skip_id)
    IN  [i \in DOMAIN kept |-> [line |-> LineOf(kept[i].part), depth |-> kept[i].depth]]

JustLines(ls) == [i \in DOMAIN ls |-> ls[i].line]

\* C12: every part of the given tree, at any depth, whose name is 'statement'
\* or item_type yields exactly one line (the part whose id is skip_id yields
\* none of its own), in document order.
C12_Original ==
    (scall.made /\ scall.op = "get_part") =>
        JustLines(LinesAt(sresult, 0)) = JustLines(Expected(Walk(parts, 0, FALSE)))

\* what get_part does: a part yields one line (\[label\], the label being its
\* label property or else the last dot-segment of its id, then its prose)
\* when its name and the names of all parts above it in the given tree are
\* 'statement' or item_type; a part below a part of another name yields none.
\* The part whose id is skip_id yields no line of its own while its sub-parts
\* are still rendered, and the lines of sub-parts are in a nested list right
\* after the line of their parent.
C12_GetPart ==
    (scall.made /\ scall.op = "get_part") =>
        LinesAt(sresult, 0) = Expected(Walk(parts, 0, TRUE))

\* the statement is skipped, its labelled item and the item below that are
\* rendered one list deeper each
C12_Witness ==
    /\ scall.made /\ scall.op = "get_part"
    /\ scall.skip_id = Str(<<"c", ".", "1">>)
    /\ parts[1].name = StatementName /\ HasProse(parts[1])
    /\ Len(parts[1].parts) = 1
    /\ parts[1].parts[1].name = ItemName
    /\ ~parts[1].parts[1].props.isNone
    /\ Len(parts[1].parts[1].parts) = 1
    /\ parts[1].parts[1].parts[1].name = ItemName
    /\ parts[1].parts[1].parts[1].prose.isNone
    /\ sresult =
         <<ListItem(<<StrItem(<<"\\", "[", "(", "a", ")", "\\", "]", " ", "p">>),
                      ListItem(<<StrItem(<<"\\", "[", "1", "\\", "]">>), StrItem(<<>>)>>),
                      StrItem(<<>>)>>)>>



(***************************************************************************)
(* Implementation status kept in the props of an item:                    *)
(* get_status_from_props and insert_status_in_props.  A status is          *)
(* [state, remarks]; it is projected on the one property named             *)
(* IMPLEMENTATION_STATUS, state as its value and remarks as its remarks.   *)
(***************************************************************************)
IMPLEMENTATION_STATUS ==
    <<"i", "m", "p", "l", "e", "m", "e", "n", "t", "a", "t", "i", "o", "n",
      "-", "s", "t", "a", "t", "u", "s">>
STATUS_OTHER == <<"o", "t", "h", "e", "r">>
STATUS_PLANNED == <<"p", "l", "a", "n", "n", "e", "d">>

\* common.Property(name=..., value=..., remarks=...)
PropertyWith(name, value, remarks) == [name |-> name, value |-> value, remarks |-> remarks]

\* common.ImplementationStatus(state=..., remarks=...)
ImplementationStatus(state, remarks) == [state |-> state, remarks |-> remarks]

\* mutant: the remarks of the status are left out of the property
status_as_prop_NoRemarks(status) == PropertyWith(IMPLEMENTATION_STATUS, status.state, None)

\* ControlInterface._status_as_prop
status_as_prop(status) == PropertyWith(IMPLEMENTATION_STATUS, status.state, status.remarks)

\* ControlInterface._prop_as_status
prop_as_status(prop) == ImplementationStatus(prop.value, prop.remarks)

\* ControlInterface.get_status_from_props: the first property of that exact
\* name, or else a status of state STATUS_OTHER
get_status_from_props(o) ==
    LET lst == as_list(o)
        hits == {i \in DOMAIN lst : lst[i].name = IMPLEMENTATION_STATUS}
    IN  IF hits # {}
        THEN prop_as_status(lst[CHOOSE i \in hits : \A j \in hits : i <= j])
        ELSE ImplementationStatus(STATUS_OTHER, None)

\* ControlInterface.insert_status_in_props
insert_status_in_props(o, status) == replace_prop(o, status_as_prop(status))

\* ControlInterface._copy_status_in_props(dest, src), on the props of both
copy_status_in_props(dest_props, src_props) ==
    insert_status_in_props(dest_props, get_status_from_props(src_props))

Remarks == {None, Str(<<"r">>)}
States == {STATUS_OTHER, STATUS_PLANNED}
Statuses == {ImplementationStatus(st, r) : st \in States, r \in Remarks}
StatusProperties ==
    {status_as_prop(s) : s \in Statuses} \cup {Property(<<"a">>, v) : v \in PropValues}

InitStatus ==
    /\ NoMerge /\ NoParam /\ NoSections /\ NoComponent /\ NoResolution
    /\ NoDict /\ NoXlsx /\ NoOrder
    /\ props \in {NoList} \cup {List(l) : l \in SeqsUpTo(StatusProperties, MaxProps) \ {<<>>}}
    /\ propsPre = props
    /\ plast = NoCall

\* ControlInterface.insert_status_in_props(item, status)
InsertStatus(status) ==
    /\ Len(insert_status_in_props(props, status).list) <= MaxProps
    /\ props' = insert_status_in_props(props, status)
    /\ propsPre' = props
    /\ plast' = [made |-> TRUE, op |-> "insert_status", inserted |-> TRUE,
                 status |-> status, result |-> status]
    /\ UNCHANGED <<mergeVars, paramVars, sectionVars, compVars, resVars, dictVars, xlsxVars, orderVars>>

\* ControlInterface.get_status_from_props(item); the record keeps the status
\* of the insert_status_in_props call before it, when there was one
GetStatus ==
    /\ plast' = [made |-> TRUE, op |-> "get_status",
                 inserted |-> plast.made /\ plast.op = "insert_status",
                 status |-> IF plast.made /\ plast.op = "insert_status"
                            THEN plast.status
                            ELSE ImplementationStatus(STATUS_OTHER, None),
                 result |-> get_status_from_props(props)]
    /\ UNCHANGED <<props, propsPre, mergeVars, paramVars, sectionVars, compVars, resVars, dictVars, xlsxVars, orderVars>>

NextStatus ==
    \/ \E s \in Statuses : InsertStatus(s)
    \/ GetStatus

SpecStatus == InitStatus /\ [][NextStatus]_vars

(***************************************************************************)
(* Claims on the status operations                                         *)
(***************************************************************************)
\* the implementation-status properties of a list, and the others, in order
StatusProps(lst) == SelectSeq(lst, LAMBDA prop : prop.name = IMPLEMENTATION_STATUS)
OtherProps(lst) == SelectSeq(lst, LAMBDA prop : prop.name # IMPLEMENTATION_STATUS)

\* get_status_from_props right after insert_status_in_props(item, s)
ReadBack == plast.made /\ plast.op = "get_status" /\ plast.inserted

\* C13: for an item with at most one implementation-status property, after
\* insert_status_in_props(item, s) the call get_status_from_props(item)
\* returns the state and remarks of s, the item carries exactly one
\* implementation-status property, and its other properties are unchanged.
C13_StatusRoundTrip ==
    (ReadBack /\ Len(StatusProps(Before)) <= 1) =>
        /\ plast.result.state = plast.status.state
        /\ plast.result.remarks = plast.status.remarks
        /\ Len(StatusProps(After)) = 1
        /\ OtherProps(After) = OtherProps(Before)

\* a status with remarks replaces the status the item had, another property
\* staying in place
C13_Witness ==
    /\ ReadBack
    /\ propsPre = List(<<status_as_prop(ImplementationStatus(STATUS_OTHER, None)),
                         Property(<<"a">>, <<"v">>)>>)
    /\ plast.status = ImplementationStatus(STATUS_PLANNED, Str(<<"r">>))
    /\ plast.result = plast.status


(***************************************************************************)
(* insert_imp_req_into_component.  A component holds control               *)
(* implementations (buckets) of implemented requirements, each with        *)
(* statements; lists are None or a list.  Objects are told apart by their  *)
(* uuid.  The call changes the component and, through the statement        *)
(* objects both share afterwards, the new requirement, so the operator     *)
(* answers with both.  Statement ids are unique within a requirement and   *)
(* an item carries at most one implementation-status property.             *)
(***************************************************************************)
REPLACE_ME == <<"R", "E", "P", "L", "A", "C", "E", "_", "M", "E">>

\* comp.Statement
Statement(uuid, statement_id, description, item_props) ==
    [uuid |-> uuid, statement_id |-> statement_id, description |-> description,
     props |-> item_props]

\* comp.ImplementedRequirement
ImplementedRequirement(uuid, control_id, description, item_props, set_params, statements) ==
    [uuid |-> uuid, control_id |-> control_id, description |-> description,
     props |-> item_props, set_parameters |-> set_params, statements |-> statements]

\* comp.ControlImplementation
ControlImplementation(uuid, source, description, implemented_requirements) ==
    [uuid |-> uuid, source |-> source, description |-> description,
     implemented_requirements |-> implemented_requirements]

\* comp.DefinedComponent, its control_implementations
DefinedComponent(control_implementations) ==
    [control_implementations |-> control_implementations]

Buckets(comp) == as_list(comp.control_implementations)
Reqs(control_imp) == as_list(control_imp.implemented_requirements)

\* the places <<bucket, requirement>> of a component
Places(comp) ==
    UNION {{<<b, r>> : r \in DOMAIN Reqs(Buckets(comp)[b])} : b \in DOMAIN Buckets(comp)}

ReqAt(comp, place) == Reqs(Buckets(comp)[place[1]])[place[2]]

\* the order in which the two loops come to the places
Earlier(p, q) == p[1] < q[1] \/ (p[1] = q[1] /\ p[2] <= q[2])

NoPlace == <<0, 0>>

\* mutant: only the first control implementation is searched
FirstMatch_FirstBucket(comp, control_id) ==
    LET hits == {pl \in Places(comp) :
                     pl[1] = 1 /\ ReqAt(comp, pl).control_id = control_id}
    IN  IF hits = {} THEN NoPlace
        ELSE CHOOSE p \in hits : \A q \in hits : Earlier(p, q)

\* the first implemented requirement of that control_id, over all control
\* implementations
FirstMatch(comp, control_id) ==
    LET hits == {pl \in Places(comp) : ReqAt(comp, pl).control_id = control_id}
    IN  IF hits = {} THEN NoPlace
        ELSE CHOOSE p \in hits : \A q \in hits : Earlier(p, q)

\* statement.statement_id in statement_dict
InDict(statements, statement) ==
    \E i \in DOMAIN statements : statements[i].statement_id = statement.statement_id

\* mutant: the new statement is always taken
DictGet_New(statements, statement) == statement

\* statement_dict.get(statement.statement_id, statement); in the dict the
\* last statement of an id stands for it
DictGet(statements, statement) ==
    IF InDict(statements, statement)
    THEN statements[CHOOSE i \in DOMAIN statements :
                        /\ statements[i].statement_id = statement.statement_id
                        /\ \A j \in DOMAIN statements :
                               statements[j].statement_id = statement.statement_id => j <= i]
    ELSE statement

\* one round of the loop over the new statements: stat with the description
\* and the status of the new statement
MergedStatement(statements, statement) ==
    LET stat == DictGet(statements, statement)
    IN  [stat EXCEPT !.description = statement.description,
                     !.props = copy_status_in_props(stat.props, statement.props)]

\* the matching requirement after lines 564-578
MergedRequirement(imp_req, new_imp_req) ==
    LET old == as_list(imp_req.statements)
        new == as_list(new_imp_req.statements)
        new_statements == [i \in DOMAIN new |-> MergedStatement(old, new[i])]
    IN  [imp_req EXCEPT
            !.props = insert_status_in_props(imp_req.props,
                                             get_status_from_props(new_imp_req.props)),
            !.statements = none_if_empty(List(new_statements))]

\* new_imp_req after lines 564-578: a statement of a new id is the object
\* that went into the requirement, so it carries what the loop did to it
NewAfterMerge(imp_req, new_imp_req) ==
    LET old == as_list(imp_req.statements)
        new == as_list(new_imp_req.statements)
    IN  IF new_imp_req.statements.isNone THEN new_imp_req
        ELSE [new_imp_req EXCEPT !.statements =
                 List([i \in DOMAIN new |->
                          IF InDict(old, new[i]) THEN new[i]
                          ELSE MergedStatement(old, new[i])])]

\* the component with the requirement at a place replaced
WithReqAt(comp, place, imp_req) ==
    DefinedComponent(List([comp.control_implementations.list EXCEPT
        ![place[1]].implemented_requirements =
            List([@.list EXCEPT ![place[2]] = imp_req])]))

\* lines 581-587: new_imp_req goes to the end of the first control
\* implementation, made with a fresh uuid when the component has none
Appended(comp, new_imp_req, fresh_uuid) ==
    LET buckets == IF Buckets(comp) = <<>>
                   THEN <<ControlImplementation(fresh_uuid, REPLACE_ME, REPLACE_ME, NoList)>>
                   ELSE Buckets(comp)
        imp_reqs == Append(Reqs(buckets[1]), new_imp_req)
    IN  DefinedComponent(List([buckets EXCEPT ![1].implemented_requirements = List(imp_reqs)]))

\* ControlInterface.insert_imp_req_into_component: the component and
\* new_imp_req as the call leaves them
insert_imp_req_into_component(comp, new_imp_req, fresh_uuid) ==
    LET place == FirstMatch(comp, new_imp_req.control_id)
    IN  IF place # NoPlace
        THEN [component |-> WithReqAt(comp, place,
                                MergedRequirement(ReqAt(comp, place), new_imp_req)),
              new_imp_req |-> NewAfterMerge(ReqAt(comp, place), new_imp_req)]
        ELSE [component |-> Appended(comp, new_imp_req, fresh_uuid),
              new_imp_req |-> new_imp_req]

MaxInserts == 2    \* insert_imp_req_into_component calls in one behaviour

ControlIds == {<<"c", "1">>, <<"c", "2">>, <<"c", "3">>}
PlannedProp == status_as_prop(ImplementationStatus(STATUS_PLANNED, Str(<<"r">>)))
OtherProp == status_as_prop(ImplementationStatus(STATUS_OTHER, Str(<<"r">>)))

\* what the component holds at the start: statements u1, u2 of ids s1, s2
OldProps == {NoList, List(<<PlannedProp, Property(<<"a">>, <<"v">>)>>)}
OldStatement(k, item_props) == Statement(<<"u", k>>, <<"s", k>>, <<"d">>, item_props)
OldStatementLists ==
    {NoList} \cup {List(<<OldStatement("1", pr)>>) : pr \in OldProps}
             \cup {List(<<OldStatement("1", pr), OldStatement("2", NoList)>>) :
                       pr \in OldProps \ {NoList}}
SetParameters == List(<<[param_id |-> <<"p">>, values |-> List(<<<<"v">>>>)]>>)
OldReq(control_id, item_props, statements) ==
    ImplementedRequirement(<<"r">> \o control_id, control_id, <<"d">>, item_props,
                           SetParameters, statements)
OldReqs(control_id) ==
    {OldReq(control_id, pr, st) : pr \in OldProps, st \in OldStatementLists}
Bucket(k, imp_reqs) == ControlImplementation(<<"b", k>>, <<"x">>, <<"d">>, imp_reqs)

\* no control implementation, one without requirements, one with a
\* requirement for c1, or that one and a second one with a requirement for c2
Components ==
    {DefinedComponent(NoList), DefinedComponent(List(<<Bucket("1", NoList)>>))}
    \cup {DefinedComponent(List(<<Bucket("1", List(<<r1>>))>>)) : r1 \in OldReqs(<<"c", "1">>)}
    \cup {DefinedComponent(List(<<Bucket("1", List(<<r1>>)), Bucket("2", List(<<r2>>))>>)) :
              r1 \in {OldReq(<<"c", "1">>, NoList, st) : st \in OldStatementLists \ {NoList}},
              r2 \in {OldReq(<<"c", "2">>, NoList, NoList),
                      OldReq(<<"c", "2">>, List(<<PlannedProp, Property(<<"a">>, <<"v">>)>>),
                             List(<<OldStatement("1", NoList), OldStatement("2", NoList)>>))}}

\* what is inserted: statements n1, n2 of ids among s1, s2, s3
NewProps == {NoList, List(<<OtherProp, Property(<<"a">>, <<" ", "w">>)>>)}
NewStatement(k, id, item_props) == Statement(<<"n", k>>, <<"s", id>>, <<"n">>, item_props)
NewStatementLists ==
    {NoList}
    \cup {List(<<NewStatement("1", "2", pr), NewStatement("2", "1", NoList)>>) :
              pr \in NewProps \ {NoList}}
    \cup {List(<<NewStatement("1", "3", pr)>>) : pr \in NewProps \ {NoList}}
NewReqs ==
    {ImplementedRequirement(<<"n">>, c, <<"n">>, pr, NoList, st) :
         c \in ControlIds, pr \in NewProps, st \in NewStatementLists}
Uuids == {<<"u", "u", "i", "d", "4">>}

\* the control ids of the requirements of a component
IdsIn(comp) == {ReqAt(comp, pl).control_id : pl \in Places(comp)}

InitComponent ==
    /\ NoMerge /\ NoParam /\ NoProps /\ NoSections /\ NoResolution
    /\ NoDict /\ NoXlsx /\ NoOrder
    /\ component \in Components
    /\ componentPre = component
    /\ newReq = <<>>
    /\ icall = [made |-> FALSE, count |-> 0, ids |-> IdsIn(component)]

\* ControlInterface.insert_imp_req_into_component(component, new_imp_req)
InsertImpReq(new_imp_req, fresh_uuid) ==
    /\ icall.count < MaxInserts
    /\ LET after == insert_imp_req_into_component(component, new_imp_req, fresh_uuid)
       IN  /\ component' = after.component
           /\ newReq' = after.new_imp_req
    /\ componentPre' = component
    /\ icall' = [made |-> TRUE, count |-> icall.count + 1,
                 ids |-> icall.ids \cup {new_imp_req.control_id},
                 new_imp_req |-> new_imp_req]
    /\ UNCHANGED <<mergeVars, paramVars, propVars, sectionVars, resVars, dictVars, xlsxVars, orderVars>>

NextComponent == \E new_imp_req \in NewReqs, fresh_uuid \in Uuids :
                     InsertImpReq(new_imp_req, fresh_uuid)

SpecComponent == InitComponent /\ [][NextComponent]_vars


(***************************************************************************)
(* Claims on insert_imp_req_into_component                                 *)
(***************************************************************************)
\* the requirements of the k-th control implementation, none when it is absent
ReqsOfBucket(comp, k) ==
    IF k \in DOMAIN Buckets(comp) THEN Reqs(Buckets(comp)[k]) ELSE <<>>

\* the call found a requirement of the control_id of new_imp_req
Matched == icall.made /\ icall.new_imp_req.control_id \in IdsIn(componentPre)
Unmatched == icall.made /\ icall.new_imp_req.control_id \notin IdsIn(componentPre)

\* C14: from a component in which no two implemented requirements share a
\* control_id, after any sequence of insert_imp_req_into_component calls the
\* component holds exactly one implemented requirement for each control_id
\* that was present or inserted, over all control implementations; an insert
\* without a match appends the new requirement at the end of the first
\* control implementation, which is made when the component has none.
C14_Upsert ==
    /\ IdsIn(component) = icall.ids
    /\ \A p, q \in Places(component) :
           ReqAt(component, p).control_id = ReqAt(component, q).control_id => p = q
    /\ Unmatched =>
           /\ Len(Buckets(component)) = IF Buckets(componentPre) = <<>> THEN 1
                                        ELSE Len(Buckets(componentPre))
           /\ ReqsOfBucket(component, 1) =
                  Append(ReqsOfBucket(componentPre, 1), icall.new_imp_req)
           /\ \A k \in DOMAIN Buckets(componentPre) :
                  k > 1 => Buckets(component)[k] = Buckets(componentPre)[k]

\* c2 was matched in the second control implementation or c3 appended to the
\* first, after one more insert: the first holds c1 and c3, the second c2
C14_Witness ==
    /\ icall.made /\ icall.count = 2
    /\ Unmatched
    /\ Len(Buckets(component)) = 2
    /\ [i \in 1..2 |-> ReqsOfBucket(component, 1)[i].control_id]
           = <<<<"c", "1">>, <<"c", "3">>>>
    /\ Len(ReqsOfBucket(component, 1)) = 2
    /\ ReqsOfBucket(component, 1)[2] = icall.new_imp_req
    /\ ReqsOfBucket(component, 2)[1].control_id = <<"c", "2">>

\* the one place of the control_id of new_imp_req in a component
PlaceOf(comp) ==
    CHOOSE pl \in Places(comp) : ReqAt(comp, pl).control_id = icall.new_imp_req.control_id

\* the statement of an id in a list of statements
HasId(statements, id) == \E i \in DOMAIN statements : statements[i].statement_id = id
WithId(statements, id) ==
    statements[CHOOSE i \in DOMAIN statements : statements[i].statement_id = id]

\* stat is the statement `kept` with the description and status of `given`
Carries(stat, kept, given) ==
    /\ stat.uuid = kept.uuid
    /\ stat.statement_id = given.statement_id
    /\ OtherProps(as_list(stat.props)) = OtherProps(as_list(kept.props))
    /\ stat.description = given.description
    /\ get_status_from_props(stat.props) = get_status_from_props(given.props)

\* C15: on a control_id match the statements of the existing requirement
\* afterwards correspond one-to-one, in the order of new_req, to the
\* statements of new_req; for a statement_id that existed the old statement
\* object is kept (uuid and other properties unchanged) with the description
\* and status of the new statement, for a new statement_id the new statement
\* is used; the status of the requirement becomes that of new_req and its
\* other fields (description, other properties, set-parameters) are unchanged.
C15_MatchMerge ==
    Matched =>
        LET old_req == ReqAt(componentPre, PlaceOf(componentPre))
            imp_req == ReqAt(component, PlaceOf(componentPre))
            new_req == icall.new_imp_req
            old == as_list(old_req.statements)
            new == as_list(new_req.statements)
            now == as_list(imp_req.statements)
        IN  /\ Len(now) = Len(new)
            /\ \A i \in DOMAIN new :
                   Carries(now[i],
                           IF HasId(old, new[i].statement_id)
                           THEN WithId(old, new[i].statement_id) ELSE new[i],
                           new[i])
            /\ get_status_from_props(imp_req.props) = get_status_from_props(new_req.props)
            /\ imp_req.uuid = old_req.uuid
            /\ imp_req.control_id = old_req.control_id
            /\ imp_req.description = old_req.description
            /\ imp_req.set_parameters = old_req.set_parameters
            /\ OtherProps(as_list(imp_req.props)) = OtherProps(as_list(old_req.props))

\* statements u1 (s1) and u2 (s2) met new statements for s2 and s1: u2 comes
\* first now, both with the new description, u2 with the new status
C15_Witness ==
    /\ Matched
    /\ LET old == as_list(ReqAt(componentPre, PlaceOf(componentPre)).statements)
           now == as_list(ReqAt(component, PlaceOf(componentPre)).statements)
       IN  /\ Len(old) = 2 /\ Len(now) = 2
           /\ old[1].uuid = <<"u", "1">> /\ old[2].uuid = <<"u", "2">>
           /\ now[1].uuid = <<"u", "2">> /\ now[2].uuid = <<"u", "1">>
           /\ now[1].description = <<"n">> /\ now[2].description = <<"n">>
           /\ old[1].description = <<"d">>
           /\ get_status_from_props(old[1].props)
                  = ImplementationStatus(STATUS_PLANNED, Str(<<"r">>))
           /\ get_status_from_props(now[1].props)
                  = ImplementationStatus(STATUS_OTHER, Str(<<"r">>))
           /\ get_status_from_props(now[2].props)
                  = ImplementationStatus(STATUS_OTHER, None)


(***************************************************************************)
(* Rules and rule parameters kept in the props of an item:                 *)
(* get_rules_from_item and get_params_from_item.  The rule id of a property *)
(* is in its remarks.  A dict is the sequence of its entries in insertion  *)
(* order, a key that is not set being None.                                *)
(***************************************************************************)
RULE_NAME_ID == <<"r", "u", "l", "e", "_", "n", "a", "m", "e", "_", "i", "d">>
RULE_DESCRIPTION ==
    <<"r", "u", "l", "e", "_", "d", "e", "s", "c", "r", "i", "p", "t", "i", "o", "n">>
PARAM_ID == <<"p", "a", "r", "a", "m", "_", "i", "d">>
PARAM_DESCRIPTION ==
    <<"p", "a", "r", "a", "m", "_", "d", "e", "s", "c", "r", "i", "p", "t", "i", "o", "n">>
PARAM_OPTIONS == <<"p", "a", "r", "a", "m", "_", "o", "p", "t", "i", "o", "n", "s">>

\* string_from_root(prop.remarks)
string_from_root(o) == IF o.isNone THEN <<>> ELSE o.s

\* the place of a key in a dict, 0 when it is not in it
KeyPlace(dict, key) ==
    IF \E i \in DOMAIN dict : dict[i].id = key
    THEN CHOOSE i \in DOMAIN dict : dict[i].id = key
    ELSE 0

\* dict[key] = entry: in place when the key is there, at the end otherwise
DictSet(dict, key, entry) ==
    IF KeyPlace(dict, key) # 0
    THEN [dict EXCEPT ![KeyPlace(dict, key)] = entry]
    ELSE Append(dict, entry)

\* one round of the loop of get_rules_from_item on [rules, name, desc, id_]
RuleStep(st, prop) ==
    LET set == IF prop.name = RULE_NAME_ID
               THEN [st EXCEPT !.name = prop.value, !.id_ = string_from_root(prop.remarks)]
               ELSE IF prop.name = RULE_DESCRIPTION
               THEN [st EXCEPT !.desc = prop.value]
               ELSE st
    IN  IF set.name # <<>> /\ set.desc # <<>>
        THEN [rules |-> DictSet(set.rules, set.id_,
                                [id |-> set.id_, name |-> set.name, description |-> set.desc]),
              name |-> <<>>, desc |-> <<>>, id_ |-> <<>>]
        ELSE set

RECURSIVE RulesFrom(_, _, _)
RulesFrom(lst, i, st) ==
    IF i > Len(lst) THEN st.rules ELSE RulesFrom(lst, i + 1, RuleStep(st, lst[i]))

\* ControlInterface.get_rules_from_item: it raises nothing
get_rules_from_item(o) ==
    [raised |-> FALSE,
     result |-> RulesFrom(as_list(o), 1,
                          [rules |-> <<>>, name |-> <<>>, desc |-> <<>>, id_ |-> <<>>])]

\* mutant: no rule id is ever found in params
InParams_Never(params, rule_id) == FALSE

\* rule_id in params
InParams(params, rule_id) == KeyPlace(params, rule_id) # 0

\* one round of the loop of get_params_from_item on [raised, params]
ParamStep(st, prop) ==
    LET rule_id == string_from_root(prop.remarks)
        known == InParams(st.params, rule_id)
        place == KeyPlace(st.params, rule_id)
    IN  IF prop.name = PARAM_ID
        THEN IF known THEN [st EXCEPT !.raised = TRUE]
             ELSE [st EXCEPT !.params =
                      Append(@, [id |-> rule_id, name |-> prop.value,
                                 description |-> None, options |-> None])]
        ELSE IF prop.name = PARAM_DESCRIPTION
        THEN IF known THEN [st EXCEPT !.params[place].description = Str(prop.value)]
             ELSE [st EXCEPT !.raised = TRUE]
        ELSE IF prop.name = PARAM_OPTIONS
        THEN IF known THEN [st EXCEPT !.params[place].options = Str(prop.value)]
             ELSE [st EXCEPT !.raised = TRUE]
        ELSE st

RECURSIVE ParamsFrom(_, _, _)
ParamsFrom(lst, i, st) ==
    IF st.raised THEN [raised |-> TRUE, result |-> <<>>]
    ELSE IF i > Len(lst) THEN [raised |-> FALSE, result |-> st.params]
    ELSE ParamsFrom(lst, i + 1, ParamStep(st, lst[i]))

\* ControlInterface.get_params_from_item
get_params_from_item(o) ==
    ParamsFrom(as_list(o), 1, [raised |-> FALSE, params |-> <<>>])

MaxRuleProps == 4  \* most rule or parameter properties of an item

\* rule properties: names n1, n2 for rule r1, n1 for rule r2, two descriptions
RuleProperties ==
    {PropertyWith(RULE_NAME_ID, <<"n", "1">>, Str(<<"r", "1">>)),
     PropertyWith(RULE_NAME_ID, <<"n", "2">>, Str(<<"r", "1">>)),
     PropertyWith(RULE_NAME_ID, <<"n", "1">>, Str(<<"r", "2">>)),
     PropertyWith(RULE_DESCRIPTION, <<"d", "1">>, None),
     PropertyWith(RULE_DESCRIPTION, <<"d", "2">>, None),
     Property(<<"a">>, <<"v">>)}

\* parameter properties for the rules r1 and r2
ParamProperties ==
    {PropertyWith(PARAM_ID, <<"p", "1">>, Str(<<"r", "1">>)),
     PropertyWith(PARAM_ID, <<"p", "2">>, Str(<<"r", "1">>)),
     PropertyWith(PARAM_ID, <<"p", "1">>, Str(<<"r", "2">>)),
     PropertyWith(PARAM_DESCRIPTION, <<"d", "1">>, Str(<<"r", "1">>)),
     PropertyWith(PARAM_DESCRIPTION, <<"d", "2">>, Str(<<"r", "1">>)),
     PropertyWith(PARAM_DESCRIPTION, <<"d", "1">>, Str(<<"r", "2">>)),
     PropertyWith(PARAM_OPTIONS, <<"o", "1">>, Str(<<"r", "1">>)),
     PropertyWith(PARAM_OPTIONS, <<"o", "1">>, Str(<<"r", "2">>))}

InitRules ==
    /\ NoMerge /\ NoParam /\ NoSections /\ NoComponent /\ NoResolution
    /\ NoDict /\ NoXlsx /\ NoOrder
    /\ props \in {NoList}
           \cup {List(l) : l \in SeqsUpTo(RuleProperties, MaxRuleProps) \ {<<>>}}
           \cup {List(l) : l \in SeqsUpTo(ParamProperties, MaxRuleProps) \ {<<>>}}
    /\ propsPre = props
    /\ plast = NoCall

\* ControlInterface.get_rules_from_item(item)
GetRules ==
    /\ plast' = [made |-> TRUE, op |-> "get_rules",
                 raised |-> get_rules_from_item(props).raised,
                 result |-> get_rules_from_item(props).result]
    /\ UNCHANGED <<props, propsPre, mergeVars, paramVars, sectionVars, compVars, resVars, dictVars, xlsxVars, orderVars>>

\* ControlInterface.get_params_from_item(item)
GetParams ==
    /\ plast' = [made |-> TRUE, op |-> "get_params",
                 raised |-> get_params_from_item(props).raised,
                 result |-> get_params_from_item(props).result]
    /\ UNCHANGED <<props, propsPre, mergeVars, paramVars, sectionVars, compVars, resVars, dictVars, xlsxVars, orderVars>>

NextRules == GetRules \/ GetParams

SpecRules == InitRules /\ [][NextRules]_vars

(***************************************************************************)
(* Claims on the rule and parameter metadata                               *)
(***************************************************************************)
\* prop is one of that name for that rule
IsFor(prop, name, rule_id) == prop.name = name /\ prop.remarks = Str(rule_id)

\* the rule ids the props of the item speak of
RuleIdsOf(lst) ==
    {lst[i].remarks.s : i \in {j \in DOMAIN lst : ~lst[j].remarks.isNone}}

\* a rule_name_id property with the rule_description right after it
PairAt(lst, i, rule_id) ==
    /\ i \in DOMAIN lst /\ i + 1 \in DOMAIN lst
    /\ IsFor(lst[i], RULE_NAME_ID, rule_id)
    /\ lst[i + 1].name = RULE_DESCRIPTION

\* two such pairs name the same rule id
DuplicateRule(lst) ==
    \E rule_id \in RuleIdsOf(lst) : \E i, k \in DOMAIN lst :
        i + 1 < k /\ PairAt(lst, i, rule_id) /\ PairAt(lst, k, rule_id)

\* two param_id properties name the same rule id
DuplicateParam(lst) ==
    \E rule_id \in RuleIdsOf(lst) : \E i, k \in DOMAIN lst :
        i < k /\ IsFor(lst[i], PARAM_ID, rule_id) /\ IsFor(lst[k], PARAM_ID, rule_id)

\* C16: two rule_name_id / rule_description pairs whose remarks name the same
\* rule id make get_rules_from_item report an error instead of overwriting
\* one with the other, and a second param_id property for a rule id makes
\* get_params_from_item fail.
C16_Original ==
    /\ (plast.made /\ plast.op = "get_rules" /\ DuplicateRule(After)) => plast.raised
    /\ (plast.made /\ plast.op = "get_params" /\ DuplicateParam(After)) => plast.raised

\* a param_description or param_options property with no param_id of its
\* rule before it
Orphan(lst) ==
    \E i \in DOMAIN lst :
        /\ lst[i].name \in {PARAM_DESCRIPTION, PARAM_OPTIONS}
        /\ ~\E j \in 1..(i - 1) : IsFor(lst[j], PARAM_ID, string_from_root(lst[i].remarks))

\* the value of the last property of that name for the rule, None without one
LastValue(lst, name, rule_id) ==
    LET at == {i \in DOMAIN lst : IsFor(lst[i], name, rule_id)}
    IN  IF at = {} THEN None
        ELSE Str(lst[CHOOSE i \in at : \A j \in at : j <= i].value)

\* the result has one entry for each rule id with a param_id property, with
\* the name of the rule and the last description and options seen for it
OneEntryPerRule(lst, result) ==
    /\ {result[i].id : i \in DOMAIN result}
           = {rule_id \in RuleIdsOf(lst) : \E i \in DOMAIN lst : IsFor(lst[i], PARAM_ID, rule_id)}
    /\ \A i, j \in DOMAIN result : result[i].id = result[j].id => i = j
    /\ \A i \in DOMAIN result :
           /\ Str(result[i].name) = LastValue(lst, PARAM_ID, result[i].id)
           /\ result[i].description = LastValue(lst, PARAM_DESCRIPTION, result[i].id)
           /\ result[i].options = LastValue(lst, PARAM_OPTIONS, result[i].id)

\* C17: get_params_from_item goes by the order of the properties: a
\* param_description or param_options property with no earlier param_id of
\* its rule raises and nothing is returned; when every description / options
\* property follows the param_id of its rule (the one param_id the rule has),
\* the result has one entry per rule id with the name of the rule and the
\* last description / options seen for it.
C17_ParamsInOrder ==
    (plast.made /\ plast.op = "get_params") =>
        /\ Orphan(After) => plast.raised
        /\ (~Orphan(After) /\ ~DuplicateParam(After)) =>
               ~plast.raised /\ OneEntryPerRule(After, plast.result)

\* two descriptions and the options after the param_id of rule r1: the
\* second description is the one kept
C17_Witness ==
    /\ plast.made /\ plast.op = "get_params"
    /\ props = List(<<PropertyWith(PARAM_ID, <<"p", "1">>, Str(<<"r", "1">>)),
                      PropertyWith(PARAM_DESCRIPTION, <<"d", "1">>, Str(<<"r", "1">>)),
                      PropertyWith(PARAM_DESCRIPTION, <<"d", "2">>, Str(<<"r", "1">>)),
                      PropertyWith(PARAM_OPTIONS, <<"o", "1">>, Str(<<"r", "1">>))>>)
    /\ ~plast.raised
    /\ plast.result = <<[id |-> <<"r", "1">>, name |-> <<"p", "1">>,
                         description |-> Str(<<"d", "2">>), options |-> Str(<<"o", "1">>)]>>


(***************************************************************************)
(* is_withdrawn: a control is withdrawn by a property named status with    *)
(* the value withdrawn.                                                    *)
(***************************************************************************)
STATUS == <<"s", "t", "a", "t", "u", "s">>
WITHDRAWN == <<"w", "i", "t", "h", "d", "r", "a", "w", "n">>

\* mutant: name and value are compared as they are
is_withdrawn_Exact(o) ==
    \E i \in DOMAIN as_list(o) :
        as_list(o)[i].name = STATUS /\ as_list(o)[i].value = WITHDRAWN

\* ControlInterface.is_withdrawn
is_withdrawn(o) ==
    \E i \in DOMAIN as_list(o) :
        LET prop == as_list(o)[i]
        IN  /\ prop.name # <<>> /\ prop.value # <<>>
            /\ Strip(Lower(prop.name)) = STATUS
            /\ Strip(Lower(prop.value)) = WITHDRAWN

\* names and values that are the word, the word in another case or with
\* whitespace around it, the word cut short, and another one
StatusNames ==
    {STATUS, <<"S", "t", "a", "t", "u", "s", " ">>, <<"s", "t", "a", "t">>, <<"a">>}
WithdrawnValues ==
    {WITHDRAWN, <<"\n", "W", "i", "t", "h", "d", "r", "a", "w", "n">>,
     <<"w", "i", "t", "h">>, <<"v">>}
ControlProperties == {Property(n, v) : n \in StatusNames, v \in WithdrawnValues}

InitWithdrawn ==
    /\ NoMerge /\ NoParam /\ NoSections /\ NoComponent /\ NoResolution
    /\ NoDict /\ NoXlsx /\ NoOrder
    /\ props \in {NoList} \cup {List(l) : l \in SeqsUpTo(ControlProperties, MaxProps) \ {<<>>}}
    /\ propsPre = props
    /\ plast = NoCall

\* ControlInterface.is_withdrawn(control)
IsWithdrawn ==
    /\ plast' = [made |-> TRUE, op |-> "is_withdrawn", result |-> is_withdrawn(props)]
    /\ propsPre' = props
    /\ UNCHANGED <<props, mergeVars, paramVars, sectionVars, compVars, resVars, dictVars, xlsxVars, orderVars>>

NextWithdrawn == IsWithdrawn

SpecWithdrawn == InitWithdrawn /\ [][NextWithdrawn]_vars

(***************************************************************************)
(* Claims on is_withdrawn                                                  *)
(***************************************************************************)
\* the capital of a letter, of the letters the model uses
Capital(c) ==
    CASE c = "s" -> "S"
      [] c = "w" -> "W"
      [] OTHER -> c

\* s is the word, in any case, with any whitespace around it
IsWord(s, word) ==
    \E i \in 0..Len(s) :
        /\ i + Len(word) <= Len(s)
        /\ \A k \in 1..i : White(s[k])
        /\ \A k \in (i + Len(word) + 1)..Len(s) : White(s[k])
        /\ \A k \in 1..Len(word) : s[i + k] \in {word[k], Capital(word[k])}

\* C18: is_withdrawn(control) is true exactly when some property of the
\* control has the name 'status' and the value 'withdrawn', both compared
\* after trimming whitespace and ignoring case; a control without properties
\* is not withdrawn, and the call leaves the control as it was.
C18_IsWithdrawn ==
    (plast.made /\ plast.op = "is_withdrawn") =>
        /\ plast.result <=>
               \E i \in DOMAIN After :
                   IsWord(After[i].name, STATUS) /\ IsWord(After[i].value, WITHDRAWN)
        /\ After = <<>> => ~plast.result
        /\ props = propsPre

\* the second property is "Status " with the value "\nWithdrawn"
C18_Witness ==
    /\ plast.made /\ plast.op = "is_withdrawn"
    /\ After = <<Property(STATUS, <<"w", "i", "t", "h">>),
                 Property(<<"S", "t", "a", "t", "u", "s", " ">>,
                          <<"\n", "W", "i", "t", "h", "d", "r", "a", "w", "n">>)>>
    /\ plast.result


(***************************************************************************)
(* Resolution of a profile: its imports are resolved depth-first in import *)
(* order, a catalog being a terminal source and a profile being resolved   *)
(* first, and the resolved sources are merged in that order.  A catalog is *)
(* [groups, controls], each an ordered list of nodes [id, content]; the    *)
(* content of a node names the catalog it was taken from.  The import      *)
(* chain holds one frame [name, next, acc] per profile being resolved:     *)
(* the import to resolve next and the catalog gathered so far.             *)
(***************************************************************************)
Node(id, content) == [id |-> id, content |-> content]

Catalog(groups, controls) ==
    [kind |-> "catalog", imports |-> <<>>, groups |-> groups, controls |-> controls]

Profile(imports) ==
    [kind |-> "profile", imports |-> imports, groups |-> <<>>, controls |-> <<>>]

\* an Optional[Catalog] as a result
NoCatalog == [isNone |-> TRUE, groups |-> <<>>, controls |-> <<>>]
SomeCatalog(groups, controls) == [isNone |-> FALSE, groups |-> groups, controls |-> controls]

Frame(name) == [name |-> name, next |-> 1, acc |-> SomeCatalog(<<>>, <<>>)]

Running == [state |-> "running", error |-> "", catalog |-> NoCatalog]
Resolved(acc) == [state |-> "resolved", error |-> "", catalog |-> acc]
Failed(error) == [state |-> "failed", error |-> error, catalog |-> NoCatalog]

\* the place of an id in a list of nodes, 0 when it is not in it
NodePlace(nodes, id) ==
    IF \E i \in DOMAIN nodes : nodes[i].id = id
    THEN CHOOSE i \in DOMAIN nodes : nodes[i].id = id
    ELSE 0

\* mutant: a node of a later source is always appended
Supersede_Append(nodes, node) == Append(nodes, node)

\* a node of a later source supersedes the node of its id in place, and is
\* appended when the id is new
Supersede(nodes, node) ==
    IF NodePlace(nodes, node.id) # 0
    THEN [nodes EXCEPT ![NodePlace(nodes, node.id)] = node]
    ELSE Append(nodes, node)

RECURSIVE SupersedeAll(_, _, _)
SupersedeAll(nodes, later, i) ==
    IF i > Len(later) THEN nodes
    ELSE SupersedeAll(Supersede(nodes, later[i]), later, i + 1)

\* the default merge: the groups and controls of the later source in its
\* order, onto what the earlier sources gave
MergeSource(acc, source) ==
    SomeCatalog(SupersedeAll(acc.groups, source.groups, 1),
                SupersedeAll(acc.controls, source.controls, 1))

\* the visited set on the import chain
OnChain(frames, name) == \E i \in DOMAIN frames : frames[i].name = name

\* mutant: a cyclic import ends the resolution with what was gathered
CycleOutcome_Partial(frames) == Resolved(frames[1].acc)

\* a cyclic import is fatal: no catalog is returned
CycleOutcome(frames) == Failed("ConfigurationError")

MaxImports == 2    \* most imports of a profile

\* two catalogs that share group g1 and control c1, at different places
CatalogA == Catalog(<<Node("g1", "A"), Node("g2", "A")>>, <<Node("c1", "A")>>)
CatalogB ==
    Catalog(<<Node("g3", "B"), Node("g1", "B")>>, <<Node("c1", "B"), Node("c2", "B")>>)

Root == "P1"
DocNames == {"P1", "P2", "P3", "A", "B"}

ImportLists(names, n) == SeqsUpTo(names, n) \ {<<>>}

\* what load(name) answers: the root profile P1 imports among A, B and P2,
\* P2 among B, P1 and P3, and P3 imports A, P1 or itself
Documents(n) ==
    {[name \in DocNames |->
         CASE name = "A" -> CatalogA
           [] name = "B" -> CatalogB
           [] name = "P1" -> Profile(i1)
           [] name = "P2" -> Profile(i2)
           [] name = "P3" -> Profile(i3)] :
     i1 \in ImportLists({"A", "B", "P2"}, n),
     i2 \in ImportLists({"B", "P1", "P3"}, n),
     i3 \in {<<"A">>, <<"P1">>, <<"P3">>}}

InitResolve ==
    /\ NoMerge /\ NoParam /\ NoProps /\ NoSections /\ NoComponent
    /\ NoDict /\ NoXlsx /\ NoOrder
    /\ docs \in Documents(MaxImports)
    /\ chain = <<Frame(Root)>>
    /\ outcome = Running

\* the profile being resolved and the import it has come to
Top == chain[Len(chain)]
Pending == Top.next <= Len(docs[Top.name].imports)
NextImport == docs[Top.name].imports[Top.next]

\* the import is a catalog: a terminal source, merged onto what was gathered
ImportCatalog ==
    /\ outcome.state = "running" /\ Pending
    /\ docs[NextImport].kind = "catalog"
    /\ chain' = [chain EXCEPT ![Len(chain)] =
                    [@ EXCEPT !.acc = MergeSource(@, docs[NextImport]),
                              !.next = @ + 1]]
    /\ UNCHANGED <<docs, outcome, mergeVars, paramVars, propVars, sectionVars, compVars, dictVars, xlsxVars, orderVars>>

\* the import is a profile that is not on the chain: it is resolved first
EnterProfile ==
    /\ outcome.state = "running" /\ Pending
    /\ docs[NextImport].kind = "profile"
    /\ ~OnChain(chain, NextImport)
    /\ chain' = Append(chain, Frame(NextImport))
    /\ UNCHANGED <<docs, outcome, mergeVars, paramVars, propVars, sectionVars, compVars, dictVars, xlsxVars, orderVars>>

\* the import is a profile on the chain: the resolution is aborted
CyclicImport ==
    /\ outcome.state = "running" /\ Pending
    /\ docs[NextImport].kind = "profile"
    /\ OnChain(chain, NextImport)
    /\ outcome' = CycleOutcome(chain)
    /\ chain' = <<>>
    /\ UNCHANGED <<docs, mergeVars, paramVars, propVars, sectionVars, compVars, dictVars, xlsxVars, orderVars>>

\* an imported profile is resolved: its catalog is merged as a source of
\* the profile that imports it
ReturnToImporter ==
    /\ outcome.state = "running" /\ ~Pending
    /\ Len(chain) > 1
    /\ chain' = [SubSeq(chain, 1, Len(chain) - 1) EXCEPT ![Len(chain) - 1] =
                    [@ EXCEPT !.acc = MergeSource(@, Top.acc), !.next = @ + 1]]
    /\ UNCHANGED <<docs, outcome, mergeVars, paramVars, propVars, sectionVars, compVars, dictVars, xlsxVars, orderVars>>

\* the root profile is resolved: its catalog is returned
Finish ==
    /\ outcome.state = "running" /\ ~Pending
    /\ Len(chain) = 1
    /\ outcome' = Resolved(Top.acc)
    /\ chain' = <<>>
    /\ UNCHANGED <<docs, mergeVars, paramVars, propVars, sectionVars, compVars, dictVars, xlsxVars, orderVars>>

NextResolve ==
    \/ ImportCatalog
    \/ EnterProfile
    \/ CyclicImport
    \/ ReturnToImporter
    \/ Finish

SpecResolve == InitResolve /\ [][NextResolve]_vars

\* a resolution is one synchronous pass without suspend points: a step that
\* can be taken is taken
SpecResolveLive == SpecResolve /\ WF_vars(NextResolve)

(***************************************************************************)
(* Claims on the resolution                                                *)
(***************************************************************************)
\* no id comes twice in a list of nodes
UniqueIds(nodes) == \A i, j \in DOMAIN nodes : nodes[i].id = nodes[j].id => i = j

\* the root profile imports two different catalogs
TwoSources ==
    /\ Len(docs[Root].imports) = 2
    /\ docs[docs[Root].imports[1]].kind = "catalog"
    /\ docs[docs[Root].imports[2]].kind = "catalog"
    /\ docs[Root].imports[1] # docs[Root].imports[2]

\* C19: for a profile that imports source A and then source B, a group id
\* both define is in the resolved catalog once, at the place it has in A,
\* with the contents B gives it; and in any resolved catalog every group id
\* and every control id occurs at most once.
C19_Override ==
    outcome.state = "resolved" =>
        /\ UniqueIds(outcome.catalog.groups)
        /\ UniqueIds(outcome.catalog.controls)
        /\ TwoSources =>
               LET first == docs[docs[Root].imports[1]].groups
                   second == docs[docs[Root].imports[2]].groups
               IN  \A i \in DOMAIN first, j \in DOMAIN second :
                       first[i].id = second[j].id =>
                           /\ outcome.catalog.groups[i] = second[j]
                           /\ \A k \in DOMAIN outcome.catalog.groups :
                                  outcome.catalog.groups[k].id = first[i].id => k = i

\* P1 imports A then B: g1 stays first with the contents of B, g3 comes last
C19_Witness ==
    /\ outcome.state = "resolved"
    /\ docs[Root].imports = <<"A", "B">>
    /\ outcome.catalog.groups = <<Node("g1", "B"), Node("g2", "A"), Node("g3", "B")>>
    /\ outcome.catalog.controls = <<Node("c1", "B"), Node("c2", "B")>>

\* the profiles a profile imports
ImportedProfiles(name) ==
    {n \in Range(docs[name].imports) : docs[n].kind = "profile"}

\* the profiles reached from a set of profiles through imports
RECURSIVE ReachedFrom(_)
ReachedFrom(names) ==
    LET more == names \cup UNION {ImportedProfiles(n) : n \in names}
    IN  IF more = names THEN names ELSE ReachedFrom(more)

\* the import graph of the root profile contains a cycle
CyclicImports ==
    \E n \in ReachedFrom({Root}) : n \in ReachedFrom(ImportedProfiles(n))

\* C20: the resolution of an import graph with a cycle always ends failed
\* with a ConfigurationError and never returns a catalog, in part or in
\* whole; the resolution of an acyclic graph always ends.
C20_Terminates ==
    /\ CyclicImports ~> (outcome = Failed("ConfigurationError"))
    /\ [](CyclicImports => outcome.catalog.isNone)
    /\ (~CyclicImports) ~> (outcome.state \in {"resolved", "failed"})

\* P1 imports A and P2, P2 imports P1: after A was merged the resolution
\* failed
C20_Witness ==
    /\ docs[Root].imports = <<"A", "P2">>
    /\ docs["P2"].imports = <<"P1">>
    /\ outcome = Failed("ConfigurationError")
    /\ chain = <<>>


(***************************************************************************)
(* Claims on the brackets of param_to_str                                  *)
(***************************************************************************)
\* choices joined left to right with '; '
JoinedChoices(l) ==
    LET F[i \in 0..Len(l)] ==
            IF i = 0 THEN <<>>
            ELSE IF i = 1 THEN l[1]
            ELSE F[i - 1] \o <<";", " ">> \o l[i]
    IN  F[Len(l)]

HasValues == ~param.values.isNone /\ param.values.list # <<>>
HasChoices ==
    ~param.select.isNone /\ ~param.select.choice.isNone /\ param.select.choice.list # <<>>

\* the call renders the values of the parameter, or its choices
RendersValues ==
    /\ pcall.param_rep \in {"VALUE_OR_STRING_NONE", "VALUE_OR_LABEL_OR_CHOICES",
                            "VALUE_OR_EMPTY_STRING"}
    /\ HasValues
RendersChoices ==
    /\ \/ pcall.param_rep = "LABEL_OR_CHOICES"
       \/ pcall.param_rep = "VALUE_OR_LABEL_OR_CHOICES" /\ ~HasValues
    /\ HasChoices

\* the list as the flag asks for it
Wrapped(items) == IF pcall.brackets THEN <<"[">> \o items \o <<"]">> ELSE items

\* s ends with t
EndsWith(s, t) == Len(t) <= Len(s) /\ SubSeq(s, Len(s) - Len(t) + 1, Len(s)) = t

\* C23: with brackets = true every rendered list of items, the values of the
\* parameter or its selection choices, is wrapped in '[' and ']' in each mode
\* that renders such a list; with brackets = false no brackets are added.
C23_Original ==
    (pcall.made /\ pcall.params_format.isNone) =>
        /\ RendersValues =>
               presult = Returned(Str(Wrapped(JoinedValues(param.values.list))))
        /\ RendersChoices =>
               /\ ~presult.raised /\ ~presult.isNone
               /\ EndsWith(presult.s, Wrapped(JoinedChoices(param.select.choice.list)))
               /\ ~pcall.verbose =>
                      presult.s = Wrapped(JoinedChoices(param.select.choice.list))

\* what the code does: the values are wrapped in mode VALUE_OR_EMPTY_STRING
\* only, the choices wherever they are rendered
C23_BracketsWhereWired ==
    (pcall.made /\ pcall.params_format.isNone) =>
        /\ RendersValues =>
               presult = Returned(Str(
                   IF pcall.param_rep = "VALUE_OR_EMPTY_STRING"
                   THEN Wrapped(JoinedValues(param.values.list))
                   ELSE JoinedValues(param.values.list)))
        /\ RendersChoices =>
               /\ ~presult.raised /\ ~presult.isNone
               /\ EndsWith(presult.s, Wrapped(JoinedChoices(param.select.choice.list)))


(***************************************************************************)
(* Two sources merged into one dest.  dest[key] = src[key] stores the      *)
(* object of the source itself, so dest and a source can share a list or a *)
(* nested mapping when a later source is merged.                           *)
(***************************************************************************)
ListHeaders(n) == TwoKeyDicts("a", ListTrees, "b", {IntTree(n)})

InitMergeTwo ==
    /\ NoParam /\ NoProps /\ NoSections /\ NoComponent /\ NoResolution
    /\ NoDict /\ NoXlsx /\ NoOrder
    /\ \E dt \in ListHeaders(1), s1 \in ListHeaders(2), s2 \in ListHeaders(1) :
        LET rd == Store(<<>>, dt)
            r1 == Store(rd.h, s1)
            r2 == Store(r1.h, s2)
        IN  /\ heap = r2.h
            /\ dest = rd.v.n
            /\ srcs = <<r1.v.n, r2.v.n>>
            /\ heapPre = r2.h
            /\ calls = <<>>

SpecMergeTwo == InitMergeTwo /\ [][NextMerge]_vars

\* C27: merge_dicts_deep never modifies src: over any sequence of merges into
\* the same dest, every source mapping, its nested mappings and lists
\* included, keeps the value it had before the first call (each call leaves
\* every source as it found it).
C27_Original ==
    Len(calls) > 0 =>
        \A i \in DOMAIN srcs :
            Snapshot(heap, RefVal(srcs[i])) = Snapshot(heapPre, RefVal(srcs[i]))

\* the source of the call itself is only read
C27_OwnSourceKept ==
    Len(calls) > 0 => Snapshot(heap, RefVal(srcs[LastCall.src])) = SrcBefore


(***************************************************************************)
(* Reading a property back after it was written or deleted                 *)
(***************************************************************************)
\* what get_prop answers when nothing matches
DefaultAnswer(d) == IF Truthy(d) THEN d.s ELSE <<>>

\* the properties get_prop would take for the name of the last call
Answering(lst) == {i \in DOMAIN lst : Core(lst[i].name) = Core(plast.name)}

\* C28: read-your-write for properties: immediately after
\* replace_property(node, p) the call get_property(node, p.name) returns the
\* trimmed value of p, and immediately after delete_property(node, n) the call
\* get_property(node, n, d) returns the default d.
C28_Original ==
    /\ (plast.made /\ plast.op = "replace") =>
           get_prop(props, plast.name, None) = Trimmed(plast.value)
    /\ (plast.made /\ plast.op = "delete") =>
           \A d \in Defaults : get_prop(props, plast.name, d) = DefaultAnswer(d)

\* it holds where at most one property answers to the name, spelled as asked
C28_SingleSpelling ==
    (/\ plast.made
     /\ Cardinality(Answering(Before)) <= 1
     /\ \A i \in Answering(Before) : Before[i].name = plast.name) =>
        /\ plast.op = "replace" => get_prop(props, plast.name, None) = Trimmed(plast.value)
        /\ plast.op = "delete" =>
               \A d \in Defaults : get_prop(props, plast.name, d) = DefaultAnswer(d)


(***************************************************************************)
(* What insert_imp_req_into_component leaves of its second argument        *)
(***************************************************************************)
\* the call met a requirement of the same control_id
OnMatchPath == icall.made /\ FirstMatch(componentPre, icall.new_imp_req.control_id) # NoPlace

\* the statements of new_req whose statement_id the matched requirement lacks
NovelStatements ==
    LET old == as_list(ReqAt(componentPre,
                             FirstMatch(componentPre, icall.new_imp_req.control_id)).statements)
        new == as_list(icall.new_imp_req.statements)
    IN  {i \in DOMAIN new : ~InDict(old, new[i])}

\* C29: insert_imp_req_into_component modifies only the component: new_req
\* and each of its statements (descriptions and property lists, their order
\* included) are after the call what they were before it, on the match path
\* and on the no-match path.
C29_Original == icall.made => newReq = icall.new_imp_req

\* new_req is left alone on the no-match path, and on the match path when
\* each of its statements has a statement_id the matched requirement knows
C29_KeptUnlessNovel ==
    (icall.made /\ (OnMatchPath => NovelStatements = {})) => newReq = icall.new_imp_req


(***************************************************************************)
(* get_part_prose against the section prose                                *)
(***************************************************************************)
\* the top-level parts that contribute prose for the name asked
Contributing ==
    {i \in DOMAIN parts : get_control_section_part(parts[i], scall.name) # <<>>}

\* C30: get_part_prose(control, name) returns the same text as the gap-joined
\* section prose for that name: the prose of matching parts under different
\* top-level parts is separated by exactly one newline, in document order,
\* with no leading or trailing whitespace.
C30_Original ==
    (scall.made /\ scall.op = "part_prose") =>
        sresult = get_control_section_prose(parts, scall.name)

\* the two agree when at most one top-level part contributes
C30_OneTopLevelPart ==
    (scall.made /\ scall.op = "part_prose" /\ Cardinality(Contributing) <= 1) =>
        sresult = get_control_section_prose(parts, scall.name)


(***************************************************************************)
(* Iterating over the sections of a control: get_section is called with a  *)
(* skip list, the name it returns is added to the list, until it returns   *)
(* the empty result                                                        *)
(***************************************************************************)
Section(id, name, title, prose) == [id |-> id, name |-> name, title |-> title, prose |-> prose]
EmptySection == Section(<<>>, <<>>, Str(<<>>), <<>>)         \* '', '', '', ''

\* mutant: only the top-level parts are looked at
get_section_TopLevel(control_parts, skip_section_list) ==
    LET hits == {i \in DOMAIN control_parts :
                     Unconsumed(control_parts[i], skip_section_list)}
    IN  IF hits = {} THEN EmptySection
        ELSE LET part == control_parts[CHOOSE i \in hits : \A j \in hits : i <= j]
             IN  Section(part.id, part.name, part.title,
                         get_control_section_prose(control_parts, part.name))

\* ControlInterface.get_section
get_section(control_parts, skip_section_list) ==
    LET found == find_section(control_parts, skip_section_list)
    IN  IF found.id # <<>>
        THEN Section(found.id, found.name, found.title,
                     get_control_section_prose(control_parts, found.name))
        ELSE EmptySection

\* the parts a behaviour starts from: parts of three names, a statement with
\* or without prose, a guidance section with empty prose or text, and a part
\* "h" with text
NamedSections ==
    {[name |-> <<"s">>, prose |-> None], [name |-> <<"s">>, prose |-> Str(<<"p">>)],
     [name |-> <<"g">>, prose |-> Str(<<>>)], [name |-> <<"g">>, prose |-> Str(<<"q">>)],
     [name |-> <<"h">>, prose |-> Str(<<"r">>)]}

RECURSIVE SectionForests(_)
SectionForests(n) ==
    IF n = 0 THEN {<<>>}
    ELSE UNION {
        {<<Part(<<>>, np.name, TitleOf(np.name), np.prose, sub)>> \o rest :
            np \in NamedSections,
            sub \in SectionForests(k), rest \in SectionForests(n - 1 - k)} : k \in 0..(n - 1)}

SectionControlParts(n) ==
    {WithIds(f, <<"c">>) : f \in UNION {SectionForests(m) : m \in 0..n}}

StartSkipLists == {<<>>, <<<<"g">>>>, <<<<"h">>, <<"x">>>>}

\* the loop has not called yet: skip is the list it was started with
InitIterate ==
    /\ NoMerge /\ NoParam /\ NoProps /\ NoComponent /\ NoResolution
    /\ NoDict /\ NoXlsx /\ NoOrder
    /\ parts \in SectionControlParts(MaxParts)
    /\ \E skip \in StartSkipLists :
           scall = [made |-> FALSE, op |-> "get_section", start |-> skip, skip |-> skip,
                    names |-> <<>>, done |-> FALSE]
    /\ sresult = EmptySection

\* one round of the loop: ControlInterface.get_section(control, skip), then
\* the name returned is added to skip, or the loop ends on the empty result
GetSection ==
    /\ ~scall.done
    /\ LET section == get_section(parts, scall.skip)
       IN  /\ sresult' = section
           /\ scall' = IF section.id = <<>>
                       THEN [scall EXCEPT !.made = TRUE, !.done = TRUE]
                       ELSE [scall EXCEPT !.made = TRUE,
                                          !.skip = Append(@, section.name),
                                          !.names = Append(@, section.name)]
    /\ UNCHANGED <<parts, mergeVars, paramVars, propVars, compVars, resVars, dictVars, xlsxVars, orderVars>>

NextIterate == GetSection

SpecIterate == InitIterate /\ [][NextIterate]_vars

\* the names of the parts with prose, outside skip, each once, in the order
\* of their first occurrence in document order
FirstOccurrences(forest, skip) ==
    LET all == PreOrder(forest)
        first == {i \in DOMAIN all :
                      /\ Wanted(all[i], skip)
                      /\ \A j \in 1..(i - 1) : Wanted(all[j], skip) => all[j].name # all[i].name}
        F[i \in 0..Len(all)] ==
            IF i = 0 THEN <<>>
            ELSE IF i \in first THEN Append(F[i - 1], all[i].name) ELSE F[i - 1]
    IN  F[Len(all)]

IsPrefix(s, t) == Len(s) <= Len(t) /\ SubSeq(t, 1, Len(s)) = s

\* C22: starting from any skip list and adding each returned name to it, the
\* loop over get_section reaches the empty result after finitely many calls:
\* the names returned so far are the first of the names, outside the initial
\* skip list, of the parts at any depth with non-empty prose, in order of
\* first occurrence, none twice, a call returns the empty result exactly when
\* all of them have been returned, and the loop ends there.
C22_SectionIteration ==
    LET expected == FirstOccurrences(parts, scall.start)
    IN  /\ IsPrefix(scall.names, expected)
        /\ \A i, j \in DOMAIN scall.names : i # j => scall.names[i] # scall.names[j]
        /\ scall.skip = scall.start \o scall.names
        /\ scall.done <=> (scall.made /\ sresult = EmptySection)
        /\ scall.done => scall.names = expected
        /\ (scall.made /\ ~scall.done) =>
               /\ sresult.name = scall.names[Len(scall.names)]
               /\ sresult.prose = get_control_section_prose(parts, sresult.name)

\* three rounds return "h" from below a statement without prose, then "s",
\* then nothing, with "g" skipped from the start
C22_Witness ==
    /\ scall.done
    /\ scall.start = <<<<"g">>>>
    /\ scall.names = <<<<"h">>, <<"s">>>>
    /\ Len(parts) = 2
    /\ parts[1].name = <<"s">> /\ ~HasProse(parts[1]) /\ Len(parts[1].parts) = 1
    /\ parts[1].parts[1].name = <<"h">>
    /\ parts[2].name = <<"s">> /\ HasProse(parts[2])


(***************************************************************************)
(* get_control_param_dict: the parameters of a control by their id         *)
(***************************************************************************)
MaxParams == 2     \* most parameters of a control

\* param_dict[key] = val on an insertion-ordered dict
SetParam(dict, key, val) ==
    IF \E i \in DOMAIN dict : dict[i].key = key
    THEN [dict EXCEPT ![CHOOSE i \in DOMAIN dict : dict[i].key = key] = Entry(key, val)]
    ELSE Append(dict, Entry(key, val))

\* one round of the loop on [param_dict, warnings]; an id of '' stands for a
\* parameter without id (not param.id)
ParamDictStep(st, p, values_only) ==
    LET warned == IF p.id = <<>> THEN st.warnings + 1 ELSE st.warnings
    IN  IF as_list(p.values) # <<>> \/ ~values_only
        THEN [param_dict |-> SetParam(st.param_dict, p.id, p), warnings |-> warned]
        ELSE [param_dict |-> st.param_dict, warnings |-> warned]

RECURSIVE ParamDictFrom(_, _, _, _)
ParamDictFrom(params, values_only, i, st) ==
    IF i > Len(params) THEN st
    ELSE ParamDictFrom(params, values_only, i + 1, ParamDictStep(st, params[i], values_only))

\* ControlInterface.get_control_param_dict, with the warnings it logged
get_control_param_dict(params, values_only) ==
    ParamDictFrom(as_list(params), values_only, 1, [param_dict |-> <<>>, warnings |-> 0])

ParamIds == {<<>>, <<"p">>, <<"q">>}
ControlParameters ==
    {[id |-> id, label |-> lb, values |-> vs, select |-> NoSelect] :
        id \in ParamIds, lb \in Labels, vs \in {NoList, List(<<<<"x">>>>)}}

InitParamDict ==
    /\ NoMerge /\ NoParam /\ NoProps /\ NoSections /\ NoComponent /\ NoResolution
    /\ NoXlsx /\ NoOrder
    /\ control \in {NoList} \cup {List(l) : l \in SeqsUpTo(ControlParameters, MaxParams) \ {<<>>}}
    /\ dcall = NoCall
    /\ param_dict = <<>>

\* ControlInterface.get_control_param_dict(control, values_only)
GetControlParamDict(values_only) ==
    /\ ~dcall.made
    /\ LET r == get_control_param_dict(control, values_only)
       IN  /\ param_dict' = r.param_dict
           /\ dcall' = [made |-> TRUE, values_only |-> values_only, warnings |-> r.warnings]
    /\ UNCHANGED <<control, mergeVars, paramVars, propVars, sectionVars, compVars, resVars,
                   xlsxVars, orderVars>>

NextParamDict == \E values_only \in BOOLEAN : GetControlParamDict(values_only)

SpecParamDict == InitParamDict /\ [][NextParamDict]_vars

DictKeys == {param_dict[i].key : i \in DOMAIN param_dict}

\* the parameters that qualify: with values, or any when values_only is false
Qualifying ==
    {i \in DOMAIN as_list(control) :
        as_list(as_list(control)[i].values) # <<>> \/ ~dcall.values_only}

\* C24: get_control_param_dict ignores a parameter that has no id: the mapping
\* returned has an entry exactly for each parameter with an id that has values
\* or, when values_only is false, for each parameter with an id; every key is
\* a parameter id and maps to the parameter with that id.
C24_Original ==
    dcall.made =>
        /\ DictKeys = {as_list(control)[i].id : i \in {j \in Qualifying :
                                                        as_list(control)[j].id # <<>>}}
        /\ \A i \in DOMAIN param_dict :
               /\ param_dict[i].key # <<>>
               /\ param_dict[i].val.id = param_dict[i].key

\* what the code does: a parameter without id is warned about and entered
\* like any other, under its empty id; of two with one id the later stays
C24_EntryPerQualifying ==
    dcall.made =>
        /\ DictKeys = {as_list(control)[i].id : i \in Qualifying}
        /\ \A i \in DOMAIN param_dict :
               LET same == {j \in Qualifying : as_list(control)[j].id = param_dict[i].key}
               IN  param_dict[i].val =
                       as_list(control)[CHOOSE j \in same : \A k \in same : k <= j]
        /\ dcall.warnings =
               Cardinality({i \in DOMAIN as_list(control) : as_list(control)[i].id = <<>>})


(***************************************************************************)
(* XlsxHelper: the headings of row 1 mapped to their column numbers        *)
(***************************************************************************)
MaxCols == 3       \* most columns of a sheet

\* self._work_sheet.max_column, self._work_sheet.cell(row, col).value
max_column(sheet) == Len(sheet[1])
CellValue(sheet, row, col) == sheet[row][col]

\* mutant: the loop takes in the last column
ColumnRange_Inclusive(row, cols) == row..cols

\* range(row, cols)
ColumnRange(row, cols) == row..(cols - 1)

\* self._col_name_to_number[name] = col on an insertion-ordered dict
SetColumn(dict, name, col) ==
    IF \E i \in DOMAIN dict : dict[i].key = name
    THEN [dict EXCEPT ![CHOOSE i \in DOMAIN dict : dict[i].key = name] = Entry(name, col)]
    ELSE Append(dict, Entry(name, col))

\* XlsxHelper._mapper: the loop from column col on
RECURSIVE MapperFrom(_, _, _)
MapperFrom(sheet, col, dict) ==
    IF col \notin ColumnRange(1, max_column(sheet)) THEN dict
    ELSE MapperFrom(sheet, col + 1,
             IF Truthy(CellValue(sheet, 1, col))
             THEN SetColumn(dict, CellValue(sheet, 1, col).s, col)
             ELSE dict)

mapper(sheet) == MapperFrom(sheet, 1, <<>>)

\* XlsxHelper.get: a KeyError for a name the mapping lacks, else the cell
KeyError == [raised |-> TRUE, value |-> None]
Cell(value) == [raised |-> FALSE, value |-> value]
get(sheet, dict, row, name) ==
    IF \E i \in DOMAIN dict : dict[i].key = name
    THEN Cell(CellValue(sheet, row, dict[CHOOSE i \in DOMAIN dict : dict[i].key = name].val))
    ELSE KeyError

\* the sheets a behaviour starts from: a row of headings and a row of data,
\* one to MaxCols columns wide, the last column not entirely empty
Headings == {None, Str(<<"a">>), Str(<<"b">>)}
DataCells == {None, Str(<<"v">>)}
Rows(Cells, n) == {r \in SeqsUpTo(Cells, n) : Len(r) = n}
Sheets(n) ==
    UNION {{<<h, d>> : h \in Rows(Headings, w), d \in Rows(DataCells, w)} : w \in 1..n}
UsedSheets(n) == {sh \in Sheets(n) : \E row \in 1..2 : ~sh[row][Len(sh[1])].isNone}

\* XlsxHelper.__init__ has run: the sheet is loaded and _mapper was called
InitXlsx ==
    /\ NoMerge /\ NoParam /\ NoProps /\ NoSections /\ NoComponent /\ NoResolution
    /\ NoDict /\ NoOrder
    /\ work_sheet \in UsedSheets(MaxCols)
    /\ col_name_to_number = mapper(work_sheet)
    /\ xcall = NoCall

\* XlsxHelper.get(row, name)
Get(row, name) ==
    /\ row \in DOMAIN work_sheet
    /\ LET r == get(work_sheet, col_name_to_number, row, name)
       IN  xcall' = [made |-> TRUE, row |-> row, name |-> name,
                     raised |-> r.raised, value |-> r.value]
    /\ UNCHANGED <<work_sheet, col_name_to_number, mergeVars, paramVars, propVars,
                   sectionVars, compVars, resVars, dictVars, orderVars>>

NextXlsx == \E row \in 1..2, name \in {<<"a">>, <<"b">>, <<"z">>} : Get(row, name)

SpecXlsx == InitXlsx /\ [][NextXlsx]_vars

\* the columns whose heading in row 1 is name
ColumnsOf(name) ==
    {col \in 1..max_column(work_sheet) :
        Truthy(work_sheet[1][col]) /\ work_sheet[1][col].s = name}

MappedNames == {col_name_to_number[i].key : i \in DOMAIN col_name_to_number}
MappedColumn(name) ==
    col_name_to_number[CHOOSE i \in DOMAIN col_name_to_number :
                           col_name_to_number[i].key = name].val

\* C25: _mapper maps every non-empty heading in row 1 to its column number,
\* for all columns 1..max_column of the sheet, so that get(row, name) succeeds
\* for every heading present in the sheet, that of the last column included.
C25_Original ==
    /\ \A col \in 1..max_column(work_sheet) :
           Truthy(work_sheet[1][col]) =>
               /\ work_sheet[1][col].s \in MappedNames
               /\ MappedColumn(work_sheet[1][col].s) \in ColumnsOf(work_sheet[1][col].s)
    /\ (xcall.made /\ ColumnsOf(xcall.name) # {}) =>
           /\ ~xcall.raised
           /\ xcall.value = work_sheet[xcall.row][MappedColumn(xcall.name)]

\* what the code does: the headings of the columns before the last are
\* mapped, each to the last of those columns that carries it, and no others
C25_AllButLast ==
    LET mapped(name) == {col \in ColumnsOf(name) : col < max_column(work_sheet)}
    IN  /\ \A name \in {<<"a">>, <<"b">>, <<"z">>} :
               /\ name \in MappedNames <=> mapped(name) # {}
               /\ name \in MappedNames =>
                      MappedColumn(name) =
                          CHOOSE col \in mapped(name) : \A c \in mapped(name) : c <= col
        /\ xcall.made => (xcall.raised <=> xcall.name \notin MappedNames)


(***************************************************************************)
(* oscal_normalize.reorder: the classes of a file put after the classes    *)
(* they reference.  Positions are counted from 0 as in the code.           *)
(***************************************************************************)
MaxClasses == 3    \* most classes in a list
LoopCap == 1000    \* while did_swap and loop_num < 1000

\* a ClassText: its name, the names its text mentions, and what
\* find_direct_refs makes of them
ClassText(name, refs) ==
    [name |-> name, refs |-> refs, full_refs |-> {}, is_self_ref |-> FALSE]

\* RelOrder(max_index)
RelOrder(max_index) == [latest_dep |-> 0, earliest_ref |-> max_index]

At(classes, p) == classes[p + 1]
Positions(classes) == 0..(Len(classes) - 1)
Least(S) == CHOOSE p \in S : \A q \in S : p <= q
Greatest(S) == CHOOSE p \in S : \A q \in S : q <= p

\* ClassText.find_direct_refs
find_direct_refs(c, class_names_list) ==
    [c EXCEPT !.is_self_ref = c.name \in c.refs,
              !.full_refs = {ref \in c.refs : ref \in Range(class_names_list) /\ ref # c.name}]

\* ClassText.find_index
find_index(classes, name) ==
    LET hits == {p \in Positions(classes) : At(classes, p).name = name}
    IN  IF hits = {} THEN -1 ELSE Least(hits)

\* ClassText.find_order
find_order(c, classes) ==
    LET ro == RelOrder(Len(classes) - 1)
        needing == {p \in Positions(classes) : c.name \in At(classes, p).full_refs}
        needed == {find_index(classes, ref) : ref \in c.full_refs}
    IN  [latest_dep |-> Greatest(needed \cup {ro.latest_dep}),
         earliest_ref |-> IF needing = {} THEN ro.earliest_ref ELSE Least(needing)]

\* list.pop(p) leaves the list without its element at p; list.insert(p, x)
Pop(classes, p) == SubSeq(classes, 1, p) \o SubSeq(classes, p + 2, Len(classes))
Insert(classes, p, x) ==
    IF p >= Len(classes) THEN Append(classes, x)
    ELSE SubSeq(classes, 1, p) \o <<x>> \o SubSeq(classes, p + 1, Len(classes))

\* if ro.latest_dep <= i <= ro.earliest_ref: continue
InPlace(ro, i) == ro.latest_dep <= i /\ i <= ro.earliest_ref

\* ct = class_list.pop(ro.earliest_ref); class_list.insert(i, ct)
Swapped(classes, orders, i) ==
    Insert(Pop(classes, orders[i + 1].earliest_ref), i, At(classes, orders[i + 1].earliest_ref))

\* '<name>.update_forward_refs()'
ForwardRef(name) == name \o ".update_forward_refs()"

\* mutant: only the references across classes count
find_forward_refs_NoSelf(classes, orders) ==
    LET forward == {p \in Positions(classes) : orders[p + 1].earliest_ref < p}
        F[n \in 0..Len(classes)] ==
            IF n = 0 THEN <<>>
            ELSE IF (n - 1) \in forward
            THEN Append(F[n - 1], ForwardRef(classes[n].name)) ELSE F[n - 1]
    IN  F[Len(classes)]

\* find_forward_refs
find_forward_refs(classes, orders) ==
    LET forward_names ==
            {At(classes, p).name : p \in {q \in Positions(classes) : At(classes, q).is_self_ref}}
            \cup {At(classes, p).name :
                     p \in {q \in Positions(classes) : orders[q + 1].earliest_ref < q}}
        F[n \in 0..Len(classes)] ==
            IF n = 0 THEN <<>>
            ELSE IF classes[n].name \in forward_names
            THEN Append(F[n - 1], ForwardRef(classes[n].name)) ELSE F[n - 1]
    IN  F[Len(classes)]

\* the lists a behaviour starts from: classes of distinct names, "A", "B", ...
\* in this order, each mentioning any of the names (its own, and names with
\* no class in the list), the references across classes without a cycle
ClassNames == <<"A", "B", "C", "D", "E">>
NamesUpTo(n) == {ClassNames[i] : i \in 1..n}

RECURSIVE Peels(_, _)
Peels(classes, left) ==
    IF left = {} THEN TRUE
    ELSE LET free == {i \in left :
                         \A j \in left : j # i => classes[j].name \notin classes[i].refs}
         IN  free # {} /\ Peels(classes, left \ free)
Acyclic(classes) == Peels(classes, DOMAIN classes)

ClassLists(n) ==
    UNION {{cl \in [1..k -> {ClassText(ClassNames[i], refs) :
                                i \in 1..k, refs \in SUBSET NamesUpTo(n)}] :
               /\ \A i \in 1..k : cl[i].name = ClassNames[i]
               /\ Acyclic(cl)} : k \in 0..n}

InitReorder ==
    /\ NoMerge /\ NoParam /\ NoProps /\ NoSections /\ NoComponent /\ NoResolution
    /\ NoDict /\ NoXlsx
    /\ class_list \in ClassLists(MaxClasses)
    /\ classesIn = class_list
    /\ loop = [pc |-> "start", loop_num |-> 0, did_swap |-> TRUE, orders |-> <<>>]
    /\ forward_refs = <<>>

\* reorder up to the loop: find_direct_refs on every class of the list
FindDirectRefs ==
    /\ loop.pc = "start"
    /\ LET all_class_names == [i \in DOMAIN class_list |-> class_list[i].name]
       IN  class_list' = [i \in DOMAIN class_list |->
                             find_direct_refs(class_list[i], all_class_names)]
    /\ loop' = [loop EXCEPT !.pc = "loop"]
    /\ UNCHANGED <<classesIn, forward_refs, mergeVars, paramVars, propVars, sectionVars,
                   compVars, resVars, dictVars, xlsxVars>>

\* one round of while did_swap and loop_num < 1000
LoopRound ==
    /\ loop.pc = "loop"
    /\ loop.did_swap /\ loop.loop_num < LoopCap
    /\ LET orders == [i \in DOMAIN class_list |-> find_order(class_list[i], class_list)]
           out == {i \in Positions(class_list) : ~InPlace(orders[i + 1], i)}
       IN  /\ class_list' = IF out = {} THEN class_list
                            ELSE Swapped(class_list, orders, Least(out))
           /\ loop' = [pc |-> "loop", loop_num |-> loop.loop_num + 1,
                       did_swap |-> out # {}, orders |-> orders]
    /\ UNCHANGED <<classesIn, forward_refs, mergeVars, paramVars, propVars, sectionVars,
                   compVars, resVars, dictVars, xlsxVars>>

\* the loop is left: find_forward_refs(class_list, orders) and the return
Return ==
    /\ loop.pc = "loop"
    /\ ~(loop.did_swap /\ loop.loop_num < LoopCap)
    /\ forward_refs' = find_forward_refs(class_list, loop.orders)
    /\ loop' = [loop EXCEPT !.pc = "done"]
    /\ UNCHANGED <<class_list, classesIn, mergeVars, paramVars, propVars, sectionVars,
                   compVars, resVars, dictVars, xlsxVars>>

NextReorder == FindDirectRefs \/ LoopRound \/ Return

SpecReorder == InitReorder /\ [][NextReorder]_vars

(***************************************************************************)
(* Claims on reorder                                                       *)
(***************************************************************************)
\* the class as reorder took it over
AsGiven(c) == ClassText(c.name, c.refs)

\* the position of the class of that name in the list returned
PlaceIn(classes, name) == CHOOSE i \in DOMAIN classes : classes[i].name = name

SelfReferencing == {classesIn[i].name : i \in {j \in DOMAIN classesIn :
                                                  classesIn[j].name \in classesIn[j].refs}}

MaxAlters == 2     \* most alters of a profile

Add(position, by_id, part) == [position |-> position, by_id |-> by_id, part |-> part]
Alter(control_id, removes, adds) ==
    [control_id |-> control_id, removes |-> removes, adds |-> adds]
AlterProfile(alters) == [kind |-> "profile", alters |-> alters]
Warning(alter, add, control_id, by_id) ==
    [alter |-> alter, add |-> add, control_id |-> control_id, by_id |-> by_id]

Altering(warnings) ==
    [state |-> "running", error |-> "", catalog |-> NoCatalog, warnings |-> warnings]
ResolvedWith(acc, warnings) ==
    [state |-> "resolved", error |-> "", catalog |-> acc, warnings |-> warnings]
FailedWith(error, warnings) ==
    [state |-> "failed", error |-> error, catalog |-> NoCatalog, warnings |-> warnings]

\* before and after place the part relative to by_id
Positional(add) == add.position \in {"before", "after"}

\* the first place of a part id among the parts of a control, 0 without one
PartPlace(part_ids, id) ==
    IF \E i \in DOMAIN part_ids : part_ids[i] = id
    THEN CHOOSE i \in DOMAIN part_ids :
             part_ids[i] = id /\ \A j \in 1..(i - 1) : part_ids[j] # id
    ELSE 0

\* Remove by id: the parts of that id are deleted
Removed(part_ids, by_id) == SelectSeq(part_ids, LAMBDA id : id # by_id)

RECURSIVE RemovedAll(_, _, _)
RemovedAll(part_ids, removes, i) ==
    IF i > Len(removes) THEN part_ids
    ELSE RemovedAll(Removed(part_ids, removes[i]), removes, i + 1)

\* mutant: an Add whose by_id is not found puts its part last
MissingTarget_Append(st, add, alter, k, control_id) ==
    [st EXCEPT !.parts = Append(@, add.part)]

\* an Add whose by_id is not found is skipped and logged
MissingTarget(st, add, alter, k, control_id) ==
    [st EXCEPT !.warnings = Append(@, Warning(alter, k, control_id, add.by_id))]

\* one Add on [parts, warnings]: starting and ending place the part first or
\* last whatever by_id is, before and after need by_id among the parts
Added(st, add, alter, k, control_id) ==
    LET place == PartPlace(st.parts, add.by_id)
    IN  CASE add.position = "starting" -> [st EXCEPT !.parts = <<add.part>> \o @]
          [] add.position = "ending" -> [st EXCEPT !.parts = Append(@, add.part)]
          [] Positional(add) /\ place = 0 -> MissingTarget(st, add, alter, k, control_id)
          [] add.position = "before" ->
                 [st EXCEPT !.parts = SubSeq(@, 1, place - 1) \o <<add.part>>
                                          \o SubSeq(@, place, Len(@))]
          [] add.position = "after" ->
                 [st EXCEPT !.parts = SubSeq(@, 1, place) \o <<add.part>>
                                          \o SubSeq(@, place + 1, Len(@))]

RECURSIVE AddedAll(_, _, _, _, _)
AddedAll(st, adds, alter, k, control_id) ==
    IF k > Len(adds) THEN st
    ELSE AddedAll(Added(st, adds[k], alter, k, control_id), adds, alter, k + 1, control_id)

\* one alter on a control that exists: its removes, then its adds
Altered(acc, warnings, alter, index) ==
    LET place == NodePlace(acc.controls, alter.control_id)
        kept == RemovedAll(acc.controls[place].content, alter.removes, 1)
        st == AddedAll([parts |-> kept, warnings |-> warnings], alter.adds, index, 1,
                       alter.control_id)
    IN  [acc |-> [acc EXCEPT !.controls[place].content = st.parts],
         warnings |-> st.warnings]

\* the catalog step 2 left: control c1 with two parts, control c2 with one
Merged == SomeCatalog(<<>>, <<Node("c1", <<"a", "b">>), Node("c2", <<"a">>)>>)

\* the alters a behaviour starts from: on c1, which exists, or on c9, which
\* does not, then with an Add that needs its by_id; an alter removes "a" or
\* nothing and adds at most one part
Adds == {Add(pos, by, "n") : pos \in {"starting", "ending", "before", "after"},
                             by \in {"a", "z"}}
Alters ==
    {Alter("c1", rm, ad) : rm \in {<<>>, <<"a">>}, ad \in {<<>>} \cup {<<a>> : a \in Adds}}
    \cup {Alter("c9", <<>>, <<Add("before", "a", "n")>>)}

InitAlter ==
    /\ NoMerge /\ NoParam /\ NoProps /\ NoSections /\ NoComponent
    /\ NoDict /\ NoXlsx /\ NoOrder
    /\ docs \in {[name \in {Root} |-> AlterProfile(alters)] : alters \in SeqsUpTo(Alters, MaxAlters)}
    /\ chain = <<[name |-> Root, next |-> 1, acc |-> Merged]>>
    /\ outcome = Altering(<<>>)

NextAlter == docs[Root].alters[chain[1].next]
AltersLeft == chain # <<>> /\ chain[1].next <= Len(docs[Root].alters)

\* the next alter is applied to its control
ApplyAlter ==
    /\ outcome.state = "running" /\ AltersLeft
    /\ NodePlace(chain[1].acc.controls, NextAlter.control_id) # 0
    /\ LET r == Altered(chain[1].acc, outcome.warnings, NextAlter, chain[1].next)
       IN  /\ chain' = <<[chain[1] EXCEPT !.acc = r.acc, !.next = @ + 1]>>
           /\ outcome' = Altering(r.warnings)
    /\ UNCHANGED <<docs, mergeVars, paramVars, propVars, sectionVars, compVars,
                   dictVars, xlsxVars, orderVars>>

\* the control of the next alter is missing and an Add of it needs a
\* by_id: the resolution is aborted
MissingControl ==
    /\ outcome.state = "running" /\ AltersLeft
    /\ NodePlace(chain[1].acc.controls, NextAlter.control_id) = 0
    /\ \E k \in DOMAIN NextAlter.adds : Positional(NextAlter.adds[k])
    /\ outcome' = FailedWith("MissingControl", outcome.warnings)
    /\ chain' = <<>>
    /\ UNCHANGED <<docs, mergeVars, paramVars, propVars, sectionVars, compVars,
                   dictVars, xlsxVars, orderVars>>

\* no alter is left: the catalog is returned with the log
FinishAlters ==
    /\ outcome.state = "running" /\ chain # <<>> /\ ~AltersLeft
    /\ outcome' = ResolvedWith(chain[1].acc, outcome.warnings)
    /\ chain' = <<>>
    /\ UNCHANGED <<docs, mergeVars, paramVars, propVars, sectionVars, compVars,
                   dictVars, xlsxVars, orderVars>>

NextAlters == ApplyAlter \/ MissingControl \/ FinishAlters

SpecAlter == InitAlter /\ [][NextAlters]_vars

(***************************************************************************)
(* Claims on the alters                                                    *)
(***************************************************************************)
\* the alters of the profile, applied from the merged catalog up to the n-th
RECURSIVE Replay(_, _)
Replay(alters, n) ==
    IF n = 0 THEN [acc |-> Merged, warnings |-> <<>>]
    ELSE LET before == Replay(alters, n - 1)
         IN  Altered(before.acc, before.warnings, alters[n], n)

\* the parts of the control of the i-th alter when its k-th Add comes up
PartsAt(alters, i, k) ==
    LET acc == Replay(alters, i - 1).acc
        kept == RemovedAll(acc.controls[NodePlace(acc.controls, alters[i].control_id)].content,
                           alters[i].removes, 1)
    IN  AddedAll([parts |-> kept, warnings |-> <<>>], SubSeq(alters[i].adds, 1, k - 1),
                 i, 1, alters[i].control_id).parts

\* the Adds that need a by_id the control lacks when they come up
Dangling(alters) ==
    {ik \in UNION {{<<i, k>> : k \in DOMAIN alters[i].adds} : i \in DOMAIN alters} :
        /\ Positional(alters[ik[1]].adds[ik[2]])
        /\ PartPlace(PartsAt(alters, ik[1], ik[2]), alters[ik[1]].adds[ik[2]].by_id) = 0}

\* the alters without those Adds
Others(alters) ==
    [i \in DOMAIN alters |->
        [alters[i] EXCEPT !.adds =
            LET keep == {k \in DOMAIN alters[i].adds : <<i, k>> \notin Dangling(alters)}
                F[k \in 0..Len(alters[i].adds)] ==
                    IF k = 0 THEN <<>>
                    ELSE IF k \in keep THEN Append(F[k - 1], alters[i].adds[k]) ELSE F[k - 1]
            IN  F[Len(alters[i].adds)]]]

====
